---------------------------- MODULE Spec2Model ----------------------------
(***************************************************************************)
(* QuantumCanvas backend: the canonical circuit model (app/models.py), the *)
(* self-inverse cancellation pass (app/services/optimization_passes.py),   *)
(* the circuit endpoints (app/routers/circuit.py) and the conversions they *)
(* use (app/utils/circuit_conversions.py).                                 *)
(*                                                                         *)
(* Every request is stateless: a behaviour is one request arriving (Init   *)
(* chooses it) followed by the handler that serves it.                     *)
(***************************************************************************)
EXTENDS Integers, Sequences, FiniteSets, TLC

VARIABLES
    pc,            \* "request" before the handler ran, then the handler's name
    circuit,       \* the CircuitJSON of the request body
    passes,        \* OptimizationRequest.passes
    qasm_string,   \* QASMInput.qasm_string, as a sequence of tokens
    pass_out,      \* the value remove_self_inverse_pairs returned
    optimized,     \* optimize_circuit's optimized_circuit_json after the pass loop
    status,        \* HTTP status of the response, 0 while there is none
    resp_circuit,  \* the CircuitJSON of the response body
    qasm_lines,    \* export_circuit_to_qasm's qasm_lines
    script_lines,  \* circuit_json_to_pennylane_script's script_lines
    loads_called,  \* whether qasm2.loads was called for this request
    qiskit_qc,     \* the QuantumCircuit circuit_json_to_qiskit built or an importer reads
    cirq_circuit,  \* the cirq.Circuit circuit_json_to_cirq built or an importer reads
    imported,      \* the CircuitJSON an object-graph importer returned
    raised,        \* whether the conversion that ran raised
    passes_applied \* how many names of passes the handler's for loop has gone through

vars == <<pc, circuit, passes, qasm_string, pass_out, optimized, status,
          resp_circuit, qasm_lines, script_lines, loads_called, qiskit_qc,
          cirq_circuit, imported, raised, passes_applied>>

-----------------------------------------------------------------------------
(* Bounds of the model. *)

\* longest gate sequence of a request to the cancellation pass
MaxPassGates == 4
\* longest gate sequence of a request to the optimize endpoint
MaxOptGates == 3
\* longest gate sequence of a request whose pass list repeats the pass
MaxRepeatGates == 4
\* longest pass list of such a request
MaxApplications == 3
\* longest pass list of a request to the optimize endpoint
MaxPasses == 2
\* longest gate sequence of a request to the exporters
MaxExportGates == 3
\* longest gate sequence of a circuit exported to text and imported again
MaxRoundTripGates == 2
\* most white-space characters in front of the text of a parse request
MaxLeading == 1
\* largest register a parse request declares
MaxRegister == 3
\* longest gate sequence of a call of an object-graph exporter
MaxObjectGates == 3
\* most instructions or operations of a circuit handed to an importer
MaxSourceOps == 2

-----------------------------------------------------------------------------
(* Python values. *)

\* Optional[...]: None and a present value
NoneSeq == [some |-> FALSE, val |-> <<>>]
NoneInt == [some |-> FALSE, val |-> 0]
NoneStr == [some |-> FALSE, val |-> ""]
Some(v) == [some |-> TRUE, val |-> v]

\* bool(x) of an Optional list or dict: None and the empty container are falsy
Truthy(opt) == opt.some /\ opt.val # <<>>

\* a float and a str parameter; text is repr(float), resp. the string itself
Float(text) == [kind |-> "float", text |-> text]
Str(text) == [kind |-> "str", text |-> text]

\* str.lower() on the words the model uses
Lower(s) ==
    CASE s = "H" -> "h"
      [] s = "X" -> "x"
      [] s = "CX" -> "cx"
      [] s = "CNOT" -> "cnot"
      [] s = "OPENQASM" -> "openqasm"
      [] s = "OpenQASM" -> "openqasm"
      [] s = "QASM" -> "qasm"
      [] OTHER -> s

\* all sequences over S of length at most n
SeqsUpTo(S, n) == UNION {[1..k -> S] : k \in 0..n}

-----------------------------------------------------------------------------
(* app/models.py *)

GateModel(name, targets, controls, parameters) ==
    [name |-> name, targets |-> targets, controls |-> controls,
     parameters |-> parameters]

CircuitJSON(num_qubits, gates, metadata, gate_counts, depth) ==
    [num_qubits |-> num_qubits, gates |-> gates, metadata |-> metadata,
     gate_counts |-> gate_counts, depth |-> depth]

\* value of the response variables while no response of that kind exists
NoCircuit == CircuitJSON(0, <<>>, NoneStr, NoneSeq, NoneInt)

\* value of qiskit_qc while no QuantumCircuit exists
NoQuantumCircuit == [num_qubits |-> 0, name |-> "", data |-> <<>>]

-----------------------------------------------------------------------------
(* app/services/optimization_passes.py *)

SELF_INVERSE_SINGLE_QUBIT_GATES == {"h", "x", "y", "z"}

\* the pair test with the parameter check left out
PairTestIgnoringParameters(current_gate, next_gate) ==
    /\ Lower(current_gate.name) \in SELF_INVERSE_SINGLE_QUBIT_GATES
    /\ Len(current_gate.targets) = 1 /\ ~Truthy(current_gate.controls)
    /\ Len(next_gate.targets) = 1 /\ ~Truthy(next_gate.controls)
    /\ current_gate.name = next_gate.name
    /\ current_gate.targets = next_gate.targets

\* the condition of the if statement that skips both gates
IsCancellingPair(current_gate, next_gate) ==
    LET is_self_inverse_type ==
            Lower(current_gate.name) \in SELF_INVERSE_SINGLE_QUBIT_GATES
        is_single_qubit_current ==
            Len(current_gate.targets) = 1 /\ ~Truthy(current_gate.controls)
        is_single_qubit_next ==
            Len(next_gate.targets) = 1 /\ ~Truthy(next_gate.controls)
    IN  /\ is_self_inverse_type
        /\ is_single_qubit_current /\ is_single_qubit_next
        /\ current_gate.name = next_gate.name
        /\ current_gate.targets = next_gate.targets
        /\ ~Truthy(current_gate.parameters) /\ ~Truthy(next_gate.parameters)

\* the while loop; i is Python's i + 1
RECURSIVE ScanLoop(_, _, _)

\* the loop leaving the scan at the first pair it skips, the rest kept as it is
ScanStoppingAfterFirstPair(gates, i, optimized_gates) ==
    IF ~(i <= Len(gates)) THEN optimized_gates
    ELSE IF i + 1 <= Len(gates) /\ IsCancellingPair(gates[i], gates[i + 1])
         THEN optimized_gates \o SubSeq(gates, i + 2, Len(gates))
         ELSE ScanLoop(gates, i + 1, Append(optimized_gates, gates[i]))

\* the loop stepping over the first gate of a pair only
ScanDroppingOneGate(gates, i, optimized_gates) ==
    IF ~(i <= Len(gates)) THEN optimized_gates
    ELSE IF i + 1 <= Len(gates) /\ IsCancellingPair(gates[i], gates[i + 1])
         THEN ScanLoop(gates, i + 1, optimized_gates)
         ELSE ScanLoop(gates, i + 1, Append(optimized_gates, gates[i]))

ScanLoop(gates, i, optimized_gates) ==
    IF ~(i <= Len(gates)) THEN optimized_gates
    ELSE IF i + 1 <= Len(gates) /\ IsCancellingPair(gates[i], gates[i + 1])
         THEN ScanLoop(gates, i + 2, optimized_gates)
         ELSE ScanLoop(gates, i + 1, Append(optimized_gates, gates[i]))

\* the pass with the statistics copied from its input
PassKeepingStatistics(circuit_json) ==
    CircuitJSON(circuit_json.num_qubits, ScanLoop(circuit_json.gates, 1, <<>>),
                circuit_json.metadata, circuit_json.gate_counts,
                circuit_json.depth)

remove_self_inverse_pairs(circuit_json) ==
    CircuitJSON(circuit_json.num_qubits, ScanLoop(circuit_json.gates, 1, <<>>),
                circuit_json.metadata, NoneSeq, NoneInt)

OPTIMIZATION_PASS_REGISTRY == {"remove_self_inverse_pairs"}

-----------------------------------------------------------------------------
(* The part of Qiskit's QuantumCircuit the conversions use.  A circuit object *)
(* is [num_qubits, name, data]; an instruction of data is its operation's     *)
(* name, params and num_ctrl_qubits (None when the operation has no such      *)
(* attribute) and the indices of its qubits.                                  *)

\* the gate methods of QuantumCircuit the model knows: number of parameters,
\* number of qubits, and num_ctrl_qubits of the operation the method appends
QuantumCircuitMethods ==
    [h    |-> [nparams |-> 0, nqubits |-> 1, ctrl |-> NoneInt],
     x    |-> [nparams |-> 0, nqubits |-> 1, ctrl |-> NoneInt],
     y    |-> [nparams |-> 0, nqubits |-> 1, ctrl |-> NoneInt],
     z    |-> [nparams |-> 0, nqubits |-> 1, ctrl |-> NoneInt],
     s    |-> [nparams |-> 0, nqubits |-> 1, ctrl |-> NoneInt],
     sdg  |-> [nparams |-> 0, nqubits |-> 1, ctrl |-> NoneInt],
     t    |-> [nparams |-> 0, nqubits |-> 1, ctrl |-> NoneInt],
     tdg  |-> [nparams |-> 0, nqubits |-> 1, ctrl |-> NoneInt],
     id   |-> [nparams |-> 0, nqubits |-> 1, ctrl |-> NoneInt],
     rx   |-> [nparams |-> 1, nqubits |-> 1, ctrl |-> NoneInt],
     ry   |-> [nparams |-> 1, nqubits |-> 1, ctrl |-> NoneInt],
     rz   |-> [nparams |-> 1, nqubits |-> 1, ctrl |-> NoneInt],
     p    |-> [nparams |-> 1, nqubits |-> 1, ctrl |-> NoneInt],
     u    |-> [nparams |-> 3, nqubits |-> 1, ctrl |-> NoneInt],
     swap |-> [nparams |-> 0, nqubits |-> 2, ctrl |-> NoneInt],
     cx   |-> [nparams |-> 0, nqubits |-> 2, ctrl |-> Some(1)],
     cz   |-> [nparams |-> 0, nqubits |-> 2, ctrl |-> Some(1)],
     ch   |-> [nparams |-> 0, nqubits |-> 2, ctrl |-> Some(1)],
     crz  |-> [nparams |-> 1, nqubits |-> 2, ctrl |-> Some(1)],
     ccx  |-> [nparams |-> 0, nqubits |-> 3, ctrl |-> Some(2)]]

\* the set of the elements of a sequence
Range(seq) == {seq[k] : k \in 1..Len(seq)}

\* whether gate_method(*params, *qubits_for_gate) returns normally: the
\* arguments fit the method's parameter list, every parameter is a number,
\* every qubit index is one Python can index the register with, and no qubit
\* is named twice.  Anything else raises (TypeError or CircuitError).
GateMethodAccepts(qc, method, params, qubits) ==
    /\ Len(params) = QuantumCircuitMethods[method].nparams
    /\ Len(qubits) = QuantumCircuitMethods[method].nqubits
    /\ \A k \in 1..Len(params) : params[k].kind = "float"
    /\ \A k \in 1..Len(qubits) :
          -qc.num_qubits <= qubits[k] /\ qubits[k] < qc.num_qubits
    /\ \A j, k \in 1..Len(qubits) :
          j # k => qubits[j] % qc.num_qubits # qubits[k] % qc.num_qubits

\* the instruction a successful gate_method call appends
GateMethodInstruction(qc, method, params, qubits) ==
    [name |-> method,
     params |-> params,
     num_ctrl_qubits |-> QuantumCircuitMethods[method].ctrl,
     qubits |-> [k \in 1..Len(qubits) |-> qubits[k] % qc.num_qubits]]

Max(S) == CHOOSE m \in S : \A x \in S : x <= m

\* QuantumCircuit.depth(): the longest chain of instructions through shared qubits
RECURSIVE DepthLoop(_, _, _)
DepthLoop(data, k, op_stack) ==
    IF k > Len(data) THEN op_stack
    ELSE LET qs == Range(data[k].qubits)
             level == Max({op_stack[q] + 1 : q \in qs})
         IN  DepthLoop(data, k + 1,
                       [q \in DOMAIN op_stack |->
                           IF q \in qs THEN level ELSE op_stack[q]])

QiskitDepth(qc) ==
    IF qc.num_qubits = 0 THEN 0
    ELSE LET op_stack ==
                 DepthLoop(qc.data, 1, [q \in 0..(qc.num_qubits - 1) |-> 0])
         IN  Max({op_stack[q] : q \in DOMAIN op_stack})

-----------------------------------------------------------------------------
(* app/utils/circuit_conversions.py: Qiskit *)

QISKIT_GATE_MAP ==
    [h |-> "h", x |-> "x", y |-> "y", z |-> "z", s |-> "s", sdg |-> "sdg",
     t |-> "t", tdg |-> "tdg", rx |-> "rx", ry |-> "ry", rz |-> "rz",
     cx |-> "cx", cnot |-> "cx", cz |-> "cz", swap |-> "swap", ccx |-> "ccx",
     toffoli |-> "ccx", id |-> "id", u |-> "u", u3 |-> "u", p |-> "p"]

\* the names the importer looks for controls in
CONTROLLED_NAMES == {"cx", "cz", "ccx", "mcx", "mcz", "mcrx", "mcry", "mcrz"}

\* num_controls of one instruction
NumControls(gate_name, op) ==
    IF op.num_ctrl_qubits.some THEN op.num_ctrl_qubits.val
    ELSE IF gate_name = "cx" THEN 1
    ELSE IF gate_name = "cz" THEN 1
    ELSE IF gate_name = "ccx" THEN 2
    ELSE 0

\* the importer without the control split: every operand is a target
InstructionToGateUnsplit(instruction) ==
    GateModel(Lower(instruction.name), instruction.qubits, NoneSeq,
              IF instruction.params # <<>>
              THEN Some([k \in 1..Len(instruction.params) |->
                            Float(instruction.params[k].text)])
              ELSE NoneSeq)

\* the body of the importer's loop: the GateModel of one instruction
InstructionToGate(instruction) ==
    LET gate_name == Lower(instruction.name)
        operands == instruction.qubits
        num_controls ==
            IF gate_name \in CONTROLLED_NAMES
            THEN NumControls(gate_name, instruction) ELSE 0
        split == /\ gate_name \in CONTROLLED_NAMES
                 /\ num_controls > 0 /\ Len(operands) > num_controls
        parameters ==
            IF instruction.params # <<>>
            THEN Some([k \in 1..Len(instruction.params) |->
                          Float(instruction.params[k].text)])
            ELSE NoneSeq
    IN  GateModel(gate_name,
                  IF split THEN SubSeq(operands, num_controls + 1, Len(operands))
                  ELSE operands,
                  IF split THEN Some(SubSeq(operands, 1, num_controls))
                  ELSE NoneSeq,
                  parameters)

\* gate_counts_dict of the importer
GateCountsDict(gates) ==
    [n \in {gates[k].name : k \in 1..Len(gates)} |->
        Cardinality({k \in 1..Len(gates) : gates[k].name = n})]

qiskit_circuit_to_json(qc) ==
    LET gates == [k \in 1..Len(qc.data) |-> InstructionToGate(qc.data[k])]
        gate_counts_dict == GateCountsDict(gates)
    IN  CircuitJSON(qc.num_qubits, gates,
                    Some(IF qc.name # "" THEN qc.name
                         ELSE "Converted Qiskit Circuit"),
                    IF gate_counts_dict # <<>> THEN Some(gate_counts_dict)
                    ELSE NoneSeq,
                    Some(QiskitDepth(qc)))

\* the body of the exporter's loop: qc after one gate_model
ApplyGateModel(qc, gate_model) ==
    LET gate_name_lower == Lower(gate_model.name)
        qiskit_gate_name ==
            IF gate_name_lower \in DOMAIN QISKIT_GATE_MAP
            THEN QISKIT_GATE_MAP[gate_name_lower] ELSE gate_name_lower
        params == IF Truthy(gate_model.parameters)
                  THEN gate_model.parameters.val ELSE <<>>
        qubits_for_gate ==
            (IF Truthy(gate_model.controls) THEN gate_model.controls.val
             ELSE <<>>) \o gate_model.targets
    IN  IF qiskit_gate_name \notin DOMAIN QuantumCircuitMethods
        THEN qc     \* AttributeError: warning, gate skipped
        ELSE IF ~GateMethodAccepts(qc, qiskit_gate_name, params, qubits_for_gate)
        THEN qc     \* the call raised: error printed, gate skipped
        ELSE [qc EXCEPT !.data =
                 Append(@, GateMethodInstruction(qc, qiskit_gate_name, params,
                                                 qubits_for_gate))]

RECURSIVE ApplyGateModels(_, _, _)
ApplyGateModels(qc, gates, k) ==
    IF k > Len(gates) THEN qc
    ELSE ApplyGateModels(ApplyGateModel(qc, gates[k]), gates, k + 1)

\* QuantumCircuit(num_qubits) raises for a negative number of qubits
QuantumCircuitRaises(num_qubits) == num_qubits < 0

\* defined where QuantumCircuit(num_qubits) does not raise
circuit_json_to_qiskit(circuit_json) ==
    LET qc == [num_qubits |-> circuit_json.num_qubits,
               name |-> IF circuit_json.metadata.some
                           /\ circuit_json.metadata.val # ""
                        THEN circuit_json.metadata.val ELSE "circuit-0",
               data |-> <<>>]
    IN  ApplyGateModels(qc, circuit_json.gates, 1)

-----------------------------------------------------------------------------
(* app/routers/circuit.py: POST /circuit/optimize *)

\* the for loop over passes_to_apply
RECURSIVE ApplyPasses(_, _, _)
ApplyPasses(circuit_json, passes_to_apply, k) ==
    IF k > Len(passes_to_apply) THEN circuit_json
    ELSE IF passes_to_apply[k] \in OPTIMIZATION_PASS_REGISTRY
         THEN ApplyPasses(remove_self_inverse_pairs(circuit_json),
                          passes_to_apply, k + 1)
         ELSE ApplyPasses(circuit_json, passes_to_apply, k + 1)

\* the statistics recalculation and the value the handler returns
RecalculateStatistics(optimized_circuit_json) ==
    IF ~optimized_circuit_json.gate_counts.some
       \/ ~optimized_circuit_json.depth.some
    THEN IF QuantumCircuitRaises(optimized_circuit_json.num_qubits)
         THEN optimized_circuit_json
         ELSE qiskit_circuit_to_json(circuit_json_to_qiskit(optimized_circuit_json))
    ELSE optimized_circuit_json

OptimizeCircuit ==
    /\ pc = "request"
    /\ optimized' = ApplyPasses(circuit, passes, 1)
    /\ resp_circuit' = RecalculateStatistics(optimized')
    /\ status' = 200
    /\ pc' = "optimize_circuit"
    /\ UNCHANGED <<circuit, passes, qasm_string, pass_out, qasm_lines,
                   script_lines, loads_called,
                   qiskit_qc, cirq_circuit, imported, raised,
                   passes_applied>>

-----------------------------------------------------------------------------
(* OpenQASM text.  A text is the sequence of its tokens: a word (a maximal   *)
(* run of characters that are neither white space nor one of ( ) , ;) is one *)
(* token, and every white-space or punctuation character is a token of its   *)
(* own.  A line of qasm_lines is a text without "\n".                        *)

WhiteSpace == {" ", "\n"}

\* f"q[{i}]"
QRef(i) == "q[" \o ToString(i) \o "]"

\* sep.join(items), for items that are texts of one token each
RECURSIVE Join(_, _)
Join(items, sep) ==
    IF items = <<>> THEN <<>>
    ELSE IF Len(items) = 1 THEN <<items[1]>>
    ELSE <<items[1], sep>> \o Join(Tail(items), sep)

\* "\n".join(lines)
RECURSIVE JoinLines(_)
JoinLines(lines) ==
    IF lines = <<>> THEN <<>>
    ELSE IF Len(lines) = 1 THEN lines[1]
    ELSE lines[1] \o <<"\n">> \o JoinLines(Tail(lines))

\* str.strip()
RECURSIVE LStrip(_)
LStrip(text) ==
    IF text # <<>> /\ text[1] \in WhiteSpace THEN LStrip(Tail(text)) ELSE text

RECURSIVE RStrip(_)
RStrip(text) ==
    IF text # <<>> /\ text[Len(text)] \in WhiteSpace
    THEN RStrip(SubSeq(text, 1, Len(text) - 1)) ELSE text

Strip(text) == RStrip(LStrip(text))

\* str.lower() of a text
LowerText(text) == [k \in 1..Len(text) |-> Lower(text[k])]

\* str.startswith(prefix)
StartsWith(text, prefix) ==
    Len(text) >= Len(prefix) /\ SubSeq(text, 1, Len(prefix)) = prefix

-----------------------------------------------------------------------------
(* app/routers/circuit.py: POST /circuit/export/qasm *)

HeaderLine == <<"OPENQASM", " ", "2.0", ";">>
IncludeLine == <<"include", " ", "\"qelib1.inc\"", ";">>
QregLine(num_qubits) == <<"qreg", " ", QRef(num_qubits), ";">>

\* the qubit references of a gate line with the targets put first
TargetsBeforeControls(gate_model) ==
    [k \in 1..Len(gate_model.targets) |-> QRef(gate_model.targets[k])]
    \o (IF Truthy(gate_model.controls)
        THEN [k \in 1..Len(gate_model.controls.val) |->
                 QRef(gate_model.controls.val[k])]
        ELSE <<>>)

\* qubit_args of one gate
QubitArgs(gate_model) ==
    (IF Truthy(gate_model.controls)
     THEN [k \in 1..Len(gate_model.controls.val) |->
              QRef(gate_model.controls.val[k])]
     ELSE <<>>)
    \o [k \in 1..Len(gate_model.targets) |-> QRef(gate_model.targets[k])]

\* gate_str of one gate
GateLine(gate_model) ==
    <<gate_model.name>>
    \o (IF Truthy(gate_model.parameters)
        THEN <<"(">>
             \o Join([k \in 1..Len(gate_model.parameters.val) |->
                         gate_model.parameters.val[k].text], ",")
             \o <<")">>
        ELSE <<>>)
    \o <<" ">>
    \o Join(QubitArgs(gate_model), ",")
    \o <<";">>

\* the exporter skipping the gates that have no target
QasmLinesSkippingEmpty(circuit_json) ==
    <<HeaderLine, IncludeLine>>
    \o (IF circuit_json.num_qubits > 0
        THEN <<QregLine(circuit_json.num_qubits)>> ELSE <<>>)
    \o LET keep(g) == g.targets # <<>>
       IN  [k \in 1..Len(SelectSeq(circuit_json.gates, keep)) |->
               GateLine(SelectSeq(circuit_json.gates, keep)[k])]

\* qasm_lines when the handler returns
QasmLines(circuit_json) ==
    <<HeaderLine, IncludeLine>>
    \o (IF circuit_json.num_qubits > 0
        THEN <<QregLine(circuit_json.num_qubits)>> ELSE <<>>)
    \o [k \in 1..Len(circuit_json.gates) |-> GateLine(circuit_json.gates[k])]

ExportCircuitToQasm ==
    /\ pc = "request"
    /\ qasm_lines' = QasmLines(circuit)
    /\ status' = 200
    /\ pc' = "export_circuit_to_qasm"
    /\ UNCHANGED <<circuit, passes, qasm_string, pass_out, optimized,
                   resp_circuit, script_lines, loads_called,
                   qiskit_qc, cirq_circuit, imported, raised,
                   passes_applied>>

-----------------------------------------------------------------------------
(* app/utils/circuit_conversions.py: PennyLane script *)

\* PENNYLANE_GATE_MAP, each operation class by its __name__
PENNYLANE_GATE_MAP ==
    [h |-> "Hadamard", x |-> "PauliX", y |-> "PauliY", z |-> "PauliZ",
     s |-> "S", t |-> "T", rx |-> "RX", ry |-> "RY", rz |-> "RZ",
     cx |-> "CNOT", cnot |-> "CNOT", cz |-> "CZ", swap |-> "SWAP",
     id |-> "Identity", toffoli |-> "Toffoli", ccx |-> "Toffoli",
     ch |-> "CH", crx |-> "CRX", cry |-> "CRY", crz |-> "CRZ",
     cswap |-> "CSWAP"]

NATIVELY_CONTROLLED ==
    {"cx", "cnot", "cz", "toffoli", "ccx", "ch", "crx", "cry", "crz", "cswap"}

\* the strings of the model float() accepts
FloatLiterals == {"0.5", "0.785", "1.0"}

\* ", ".join(strings)
RECURSIVE JoinStr(_, _)
JoinStr(strings, sep) ==
    IF strings = <<>> THEN ""
    ELSE IF Len(strings) = 1 THEN strings[1]
    ELSE strings[1] \o sep \o JoinStr(Tail(strings), sep)

\* f"{list_of_int}"
ListRepr(ints) ==
    "[" \o JoinStr([k \in 1..Len(ints) |-> ToString(ints[k])], ", ") \o "]"

\* f"{wires}" for a list of several wires, the bare index for a single one
WiresStr(wires) ==
    IF Len(wires) = 1 THEN ToString(wires[1]) ELSE ListRepr(wires)

\* one entry of params_list_str
ParamStr(p_val) ==
    IF p_val.kind = "str"
    THEN IF Lower(p_val.text) = "pi" THEN "np.pi"
         ELSE IF Lower(p_val.text) = "pi/2" THEN "np.pi/2"
         ELSE IF Lower(p_val.text) = "pi/4" THEN "np.pi/4"
         ELSE IF p_val.text \in FloatLiterals THEN p_val.text
         ELSE "'" \o p_val.text \o "'"
    ELSE p_val.text

\* the lines one gate adds to script_lines: a statement or a warning comment
ScriptGateLine(gate_model) ==
    LET gate_name_lower == Lower(gate_model.name)
        has_constructor == gate_name_lower \in DOMAIN PENNYLANE_GATE_MAP
        is_natively_controlled_in_map == gate_name_lower \in NATIVELY_CONTROLLED
        target_wires_str == WiresStr(gate_model.targets)
        params_str_for_op ==
            IF Truthy(gate_model.parameters)
            THEN JoinStr([k \in 1..Len(gate_model.parameters.val) |->
                             ParamStr(gate_model.parameters.val[k])], ", ")
            ELSE ""
        call(wires_str) ==
            "qml." \o PENNYLANE_GATE_MAP[gate_name_lower] \o "("
            \o JoinStr((IF params_str_for_op # "" THEN <<params_str_for_op>>
                        ELSE <<>>) \o <<"wires=" \o wires_str>>, ", ")
            \o ")"
    IN  IF Truthy(gate_model.controls)
        THEN IF has_constructor /\ ~is_natively_controlled_in_map
             THEN "    qml.ctrl(" \o call(target_wires_str) \o ", control="
                  \o WiresStr(gate_model.controls.val) \o ")"
             ELSE IF has_constructor /\ is_natively_controlled_in_map
             THEN "    " \o call(ListRepr(gate_model.controls.val
                                          \o gate_model.targets))
             ELSE "    # Warning: Gate '" \o gate_model.name
                  \o "' (with controls) not found or base for qml.ctrl not identified in PENNYLANE_GATE_MAP. Skipping."
        ELSE IF has_constructor
             THEN IF gate_name_lower = "swap" /\ Len(gate_model.targets) = 2
                  THEN "    " \o call(ListRepr(gate_model.targets))
                  ELSE "    " \o call(target_wires_str)
             ELSE "    # Warning: Gate '" \o gate_model.name
                  \o "' not found in PENNYLANE_GATE_MAP. Skipping."

\* the first seven lines of every script
ScriptPreamble(num_qubits) ==
    << "import pennylane as qml",
       "from pennylane import numpy as np",
       "",
       "dev = qml.device('default.qubit', wires=" \o ToString(num_qubits) \o ")",
       "",
       "@qml.qnode(dev)",
       "def circuit():" >>

\* the script exporter without the early return for num_qubits == 0
ScriptWithoutTrivialBody(circuit_json) ==
    ScriptPreamble(circuit_json.num_qubits)
    \o [k \in 1..Len(circuit_json.gates) |->
           ScriptGateLine(circuit_json.gates[k])]
    \o << "    return qml.expval(qml.PauliZ(0)) # Example measurement",
          "\n# To run the circuit:",
          "# print(circuit())" >>

\* the script exporter appending the return statement before the gate loop
ScriptReturningBeforeGates(circuit_json) ==
    IF circuit_json.num_qubits = 0
    THEN ScriptPreamble(circuit_json.num_qubits)
         \o << "    pass # No qubits in circuit", "    return qml.state()" >>
    ELSE ScriptPreamble(circuit_json.num_qubits)
         \o << "    return qml.expval(qml.PauliZ(0)) # Example measurement" >>
         \o [k \in 1..Len(circuit_json.gates) |->
                ScriptGateLine(circuit_json.gates[k])]
         \o << "\n# To run the circuit:",
               "# print(circuit())" >>

\* script_lines when the function returns, called with the default device_name
circuit_json_to_pennylane_script(circuit_json) ==
    IF circuit_json.num_qubits = 0
    THEN ScriptPreamble(circuit_json.num_qubits)
         \o << "    pass # No qubits in circuit", "    return qml.state()" >>
    ELSE ScriptPreamble(circuit_json.num_qubits)
         \o [k \in 1..Len(circuit_json.gates) |->
                ScriptGateLine(circuit_json.gates[k])]
         \o << "    return qml.expval(qml.PauliZ(0)) # Example measurement",
               "\n# To run the circuit:",
               "# print(circuit())" >>

\* a direct call of circuit_json_to_pennylane_script on the request's circuit
ExportPennylaneScript ==
    /\ pc \in {"request", "export_circuit_to_qasm"}
    /\ script_lines' = circuit_json_to_pennylane_script(circuit)
    /\ pc' = "circuit_json_to_pennylane_script"
    /\ UNCHANGED <<circuit, passes, qasm_string, pass_out, optimized, status,
                   resp_circuit, qasm_lines, loads_called,
                   qiskit_qc, cirq_circuit, imported, raised,
                   passes_applied>>

-----------------------------------------------------------------------------
(* The part of qiskit.qasm2.loads the parse endpoint uses: a program of one  *)
(* version statement, the qelib1.inc include, one register q and gate        *)
(* applications.                                                             *)

\* the gates of qelib1.inc the model knows: number of parameters, number of
\* qubits, and num_ctrl_qubits of the operation the parser builds
QELIB1 ==
    [h    |-> [nparams |-> 0, nqubits |-> 1, ctrl |-> NoneInt],
     x    |-> [nparams |-> 0, nqubits |-> 1, ctrl |-> NoneInt],
     y    |-> [nparams |-> 0, nqubits |-> 1, ctrl |-> NoneInt],
     z    |-> [nparams |-> 0, nqubits |-> 1, ctrl |-> NoneInt],
     s    |-> [nparams |-> 0, nqubits |-> 1, ctrl |-> NoneInt],
     sdg  |-> [nparams |-> 0, nqubits |-> 1, ctrl |-> NoneInt],
     t    |-> [nparams |-> 0, nqubits |-> 1, ctrl |-> NoneInt],
     tdg  |-> [nparams |-> 0, nqubits |-> 1, ctrl |-> NoneInt],
     id   |-> [nparams |-> 0, nqubits |-> 1, ctrl |-> NoneInt],
     rx   |-> [nparams |-> 1, nqubits |-> 1, ctrl |-> NoneInt],
     ry   |-> [nparams |-> 1, nqubits |-> 1, ctrl |-> NoneInt],
     rz   |-> [nparams |-> 1, nqubits |-> 1, ctrl |-> NoneInt],
     u3   |-> [nparams |-> 3, nqubits |-> 1, ctrl |-> NoneInt],
     swap |-> [nparams |-> 0, nqubits |-> 2, ctrl |-> NoneInt],
     cx   |-> [nparams |-> 0, nqubits |-> 2, ctrl |-> Some(1)],
     cz   |-> [nparams |-> 0, nqubits |-> 2, ctrl |-> Some(1)],
     ch   |-> [nparams |-> 0, nqubits |-> 2, ctrl |-> Some(1)],
     crz  |-> [nparams |-> 1, nqubits |-> 2, ctrl |-> Some(1)],
     ccx  |-> [nparams |-> 0, nqubits |-> 3, ctrl |-> Some(2)]]

\* the value of a parameter expression, as repr(float); "" when the
\* expression does not evaluate (an undefined identifier)
EvalParameter(text) ==
    CASE text \in FloatLiterals -> text
      [] text = "pi" -> "3.141592653589793"
      [] text = "pi/2" -> "1.5707963267948966"
      [] text = "pi/4" -> "0.7853981633974483"
      [] OTHER -> ""

\* the items of a comma-separated list of tokens; <<",">> when the list is
\* malformed (an item missing or two items not separated)
ListItems(toks) ==
    IF toks = <<>> THEN <<>>
    ELSE IF /\ Len(toks) % 2 = 1
            /\ \A k \in 1..Len(toks) : (toks[k] = ",") <=> (k % 2 = 0)
         THEN [k \in 1..((Len(toks) + 1) \div 2) |-> toks[2 * k - 1]]
         ELSE <<",">>

\* the position of the first token tok at or after pos, 0 when there is none
FirstAt(toks, tok, pos) ==
    IF \E k \in pos..Len(toks) : toks[k] = tok
    THEN CHOOSE k \in pos..Len(toks) :
            toks[k] = tok /\ \A j \in pos..(k - 1) : toks[j] # tok
    ELSE 0

ParseError == [ok |-> FALSE, included |-> FALSE, num_qubits |-> 0, data |-> <<>>]

\* the parser's state after one gate application, stmt without its semicolon
ParseGate(stmt, st) ==
    LET name == stmt[1]
        close == FirstAt(stmt, ")", 2)
        has_params == Len(stmt) >= 2 /\ stmt[2] = "("
        param_items ==
            IF has_params /\ close > 0
            THEN ListItems(SubSeq(stmt, 3, close - 1)) ELSE <<>>
        arg_items ==
            IF has_params
            THEN IF close > 0 THEN ListItems(SubSeq(stmt, close + 1, Len(stmt)))
                 ELSE <<",">>
            ELSE ListItems(Tail(stmt))
        IndexOf(tok) ==
            IF \E i \in 0..(st.num_qubits - 1) : QRef(i) = tok
            THEN CHOOSE i \in 0..(st.num_qubits - 1) : QRef(i) = tok
            ELSE -1
        qubits == [k \in 1..Len(arg_items) |-> IndexOf(arg_items[k])]
    IN  IF /\ st.included /\ name \in DOMAIN QELIB1
           /\ ~(has_params /\ param_items = <<>>)
           /\ Len(param_items) = QELIB1[name].nparams
           /\ \A k \in 1..Len(param_items) : EvalParameter(param_items[k]) # ""
           /\ Len(arg_items) = QELIB1[name].nqubits
           /\ \A k \in 1..Len(qubits) : qubits[k] >= 0
           /\ \A j, k \in 1..Len(qubits) : j # k => qubits[j] # qubits[k]
        THEN [st EXCEPT !.data =
                 Append(@, [name |-> name,
                            params |-> [k \in 1..Len(param_items) |->
                                           Float(EvalParameter(param_items[k]))],
                            num_ctrl_qubits |-> QELIB1[name].ctrl,
                            qubits |-> qubits])]
        ELSE ParseError

\* the parser's state after one statement that follows the version statement
ParseStatement(stmt, st) ==
    IF stmt = <<>> THEN ParseError
    ELSE IF stmt[1] = "include"
    THEN IF stmt = <<"include", "\"qelib1.inc\"">> /\ ~st.included
         THEN [st EXCEPT !.included = TRUE] ELSE ParseError
    ELSE IF stmt[1] = "qreg"
    THEN IF /\ Len(stmt) = 2 /\ st.num_qubits = 0
            /\ \E n \in 1..MaxRegister : stmt[2] = QRef(n)
         THEN [st EXCEPT !.num_qubits =
                  CHOOSE n \in 1..MaxRegister : stmt[2] = QRef(n)]
         ELSE ParseError
    ELSE ParseGate(stmt, st)

RECURSIVE ParseStatements(_, _, _)
ParseStatements(toks, pos, st) ==
    IF pos > Len(toks) THEN st
    ELSE LET semi == FirstAt(toks, ";", pos)
         IN  IF semi = 0 THEN ParseError
             ELSE LET next == ParseStatement(SubSeq(toks, pos, semi - 1), st)
                  IN  IF next.ok THEN ParseStatements(toks, semi + 1, next)
                      ELSE next

\* qasm2.loads(text): [ok |-> FALSE] when it raises, else the circuit it returns
Loads(text) ==
    LET IsToken(tok) == tok \notin WhiteSpace
        toks == SelectSeq(text, IsToken)
        parsed ==
            IF StartsWith(toks, <<"OPENQASM", "2.0", ";">>)
            THEN ParseStatements(toks, 4,
                    [ok |-> TRUE, included |-> FALSE, num_qubits |-> 0,
                     data |-> <<>>])
            ELSE ParseError
    IN  [ok |-> parsed.ok,
         qc |-> [num_qubits |-> parsed.num_qubits, name |-> "circuit-0",
                 data |-> parsed.data]]

-----------------------------------------------------------------------------
(* app/routers/circuit.py: POST /circuit/parse *)

\* a gate that lets every text through that starts with the keyword
KeywordGate(text) == StartsWith(LowerText(Strip(text)), <<"openqasm">>)

\* the condition under which the handler goes on to parse
VersionGate(text) ==
    StartsWith(LowerText(Strip(text)), <<"openqasm", " ", "2.0", ";">>)

ParseQasmToJson ==
    /\ pc = "parse_request"
    /\ IF ~VersionGate(qasm_string)
       THEN /\ status' = 400
            /\ loads_called' = FALSE
            /\ resp_circuit' = NoCircuit
       ELSE /\ loads_called' = TRUE
            /\ IF Loads(qasm_string).ok
               THEN /\ status' = 200
                    /\ resp_circuit' = qiskit_circuit_to_json(Loads(qasm_string).qc)
               ELSE /\ status' = 400
                    /\ resp_circuit' = NoCircuit
    /\ pc' = "parse_qasm_to_json"
    /\ UNCHANGED <<circuit, passes, qasm_string, pass_out, optimized,
                   qasm_lines, script_lines,
                   qiskit_qc, cirq_circuit, imported, raised,
                   passes_applied>>

\* a client posts the text it got from /circuit/export/qasm to /circuit/parse
SubmitExportedText ==
    /\ pc = "export_circuit_to_qasm"
    /\ qasm_string' = JoinLines(qasm_lines)
    /\ status' = 0
    /\ pc' = "parse_request"
    /\ UNCHANGED <<circuit, passes, pass_out, optimized, resp_circuit,
                   qasm_lines, script_lines, loads_called,
                   qiskit_qc, cirq_circuit, imported, raised,
                   passes_applied>>

-----------------------------------------------------------------------------
(* The part of Cirq the conversions use.  A gate object is its class, its     *)
(* exponent (repr of the number; "" for a class without one), the angle a     *)
(* rotation was built with (_rads) and, for a ControlledGate, the number of  *)
(* controls; class, exponent and rads then describe its sub_gate.  An         *)
(* operation is a gate and the x of the LineQubits it acts on; a circuit is   *)
(* its sequence of moments, each a sequence of operations.                    *)

CirqGate(cls, exponent, rads, num_controls) ==
    [cls |-> cls, exponent |-> exponent, rads |-> rads,
     num_controls |-> num_controls]

\* isinstance(gate, cirq.ops.<cls>): Rx, Ry and Rz are subclasses of XPowGate,
\* YPowGate and ZPowGate; a ControlledGate is an instance of none of them
IsInstance(gate, cls) ==
    IF cls = "ControlledGate" THEN gate.num_controls > 0
    ELSE /\ gate.num_controls = 0
         /\ \/ gate.cls = cls
            \/ gate.cls = "Rx" /\ cls = "XPowGate"
            \/ gate.cls = "Ry" /\ cls = "YPowGate"
            \/ gate.cls = "Rz" /\ cls = "ZPowGate"

\* gate.sub_gate of a ControlledGate
SubGate(gate) == [gate EXCEPT !.num_controls = 0]

\* rads / np.pi, the exponent cirq.rx, cirq.ry and cirq.rz give their gate
RadsToExponent(rads) ==
    CASE rads = "3.141592653589793" -> "1.0"
      [] rads = "1.5707963267948966" -> "0.5"
      [] rads = "0.7853981633974483" -> "0.25"
      [] rads = "0.5" -> "0.15915494309189535"
      [] rads = "0.785" -> "0.24987326065427568"
      [] rads = "1.0" -> "0.3183098861837907"
      [] rads = "0.0" -> "0.0"
      [] OTHER -> rads \o "/pi"

\* exponent == <number>
ExponentIs(gate, number) ==
    CASE number = "1" -> gate.exponent \in {"1", "1.0"}
      [] OTHER -> gate.exponent = number

\* number of qubits a gate acts on
CirqNumQubits(gate) ==
    gate.num_controls
    + (IF gate.cls \in {"CNotPowGate", "CZPowGate", "SwapPowGate"} THEN 2 ELSE 1)

\* str(gate).lower() up to the first "(", for the gates no isinstance rule names
FallbackName(gate) ==
    LET base == CASE gate.cls = "HPowGate" -> "h"
                  [] gate.cls = "XPowGate" -> "x"
                  [] gate.cls = "YPowGate" -> "y"
                  [] gate.cls = "CNotPowGate" -> "cnot"
                  [] gate.cls = "CZPowGate" -> "cz"
                  [] gate.cls = "SwapPowGate" -> "swap"
                  [] OTHER -> Lower(gate.cls)
    IN  IF ExponentIs(gate, "1") \/ gate.exponent = "" THEN base
        ELSE base \o "**" \o gate.exponent

-----------------------------------------------------------------------------
(* app/utils/circuit_conversions.py: Cirq *)

\* the rules of _get_cirq_gate_name below the controlled-gate rule
BaseGateName(gate) ==
    IF IsInstance(gate, "HPowGate") /\ ExponentIs(gate, "1") THEN "h"
    ELSE IF IsInstance(gate, "XPowGate") /\ ExponentIs(gate, "1") THEN "x"
    ELSE IF IsInstance(gate, "YPowGate") /\ ExponentIs(gate, "1") THEN "y"
    ELSE IF IsInstance(gate, "ZPowGate")
    THEN IF ExponentIs(gate, "1") THEN "z"
         ELSE IF ExponentIs(gate, "0.5") THEN "s"
         ELSE IF ExponentIs(gate, "-0.5") THEN "sdg"
         ELSE IF ExponentIs(gate, "0.25") THEN "t"
         ELSE IF ExponentIs(gate, "-0.25") THEN "tdg"
         ELSE "z**" \o gate.exponent
    ELSE IF IsInstance(gate, "Rx") THEN "rx"
    ELSE IF IsInstance(gate, "Ry") THEN "ry"
    ELSE IF IsInstance(gate, "Rz") THEN "rz"
    ELSE IF IsInstance(gate, "CNotPowGate") /\ ExponentIs(gate, "1") THEN "cx"
    ELSE IF IsInstance(gate, "CZPowGate") /\ ExponentIs(gate, "1") THEN "cz"
    ELSE IF IsInstance(gate, "SwapPowGate") /\ ExponentIs(gate, "1") THEN "swap"
    ELSE IF IsInstance(gate, "IdentityGate") THEN "id"
    ELSE LET name == FallbackName(gate)
         IN  IF name = "cnot" THEN "cx"
             ELSE IF name = "i" THEN "id"
             ELSE IF name # "" THEN name ELSE "unknown"

_get_cirq_gate_name(gate) ==
    IF IsInstance(gate, "ControlledGate")
    THEN LET sub_gate_name == BaseGateName(SubGate(gate))
         IN  IF gate.num_controls = 1 THEN "c" \o sub_gate_name
             ELSE "c" \o ToString(gate.num_controls) \o "_" \o sub_gate_name
    ELSE BaseGateName(gate)

\* the construction table: a gate object, or (factory) the function that
\* builds a rotation of the given class from an angle
CIRQT_GATE_MAP_TO_CIRQT ==
    [h    |-> [factory |-> FALSE, gate |-> CirqGate("HPowGate", "1", "", 0)],
     x    |-> [factory |-> FALSE, gate |-> CirqGate("XPowGate", "1", "", 0)],
     y    |-> [factory |-> FALSE, gate |-> CirqGate("YPowGate", "1", "", 0)],
     z    |-> [factory |-> FALSE, gate |-> CirqGate("ZPowGate", "1", "", 0)],
     s    |-> [factory |-> FALSE, gate |-> CirqGate("ZPowGate", "0.5", "", 0)],
     t    |-> [factory |-> FALSE, gate |-> CirqGate("ZPowGate", "0.25", "", 0)],
     rx   |-> [factory |-> TRUE,  gate |-> CirqGate("Rx", "", "", 0)],
     ry   |-> [factory |-> TRUE,  gate |-> CirqGate("Ry", "", "", 0)],
     rz   |-> [factory |-> TRUE,  gate |-> CirqGate("Rz", "", "", 0)],
     cx   |-> [factory |-> FALSE, gate |-> CirqGate("CNotPowGate", "1", "", 0)],
     cnot |-> [factory |-> FALSE, gate |-> CirqGate("CNotPowGate", "1", "", 0)],
     cz   |-> [factory |-> FALSE, gate |-> CirqGate("CZPowGate", "1", "", 0)],
     swap |-> [factory |-> FALSE, gate |-> CirqGate("SwapPowGate", "1", "", 0)],
     id   |-> [factory |-> FALSE, gate |-> CirqGate("IdentityGate", "", "", 0)]]

\* cirq.rx(rads), cirq.ry(rads), cirq.rz(rads)
Rotation(cls, rads) == CirqGate(cls, RadsToExponent(rads), rads, 0)

\* one entry of params: the float a parameter is converted to
CirqParam(p_val) ==
    IF p_val.kind = "str"
    THEN IF Lower(p_val.text) = "pi" THEN "3.141592653589793"
         ELSE IF Lower(p_val.text) = "pi/2" THEN "1.5707963267948966"
         ELSE IF Lower(p_val.text) = "pi/4" THEN "0.7853981633974483"
         ELSE IF p_val.text \in FloatLiterals THEN p_val.text
         ELSE "0.0"     \* ValueError: warning, 0.0 instead
    ELSE p_val.text

\* whether qubits[i] for every i of indices returns (no IndexError)
IndicesInList(indices, num_qubits) ==
    \A k \in 1..Len(indices) :
        -num_qubits <= indices[k] /\ indices[k] < num_qubits

\* [qubits[i] for i in indices]; num_qubits is at most 0 for an empty list
QubitsAt(indices, num_qubits) ==
    [k \in 1..Len(indices) |-> indices[k] % num_qubits]

\* whether gate.on(*qubits) returns: as many qubits as the gate acts on, none twice
OnAccepts(gate, qubits) ==
    /\ Len(qubits) = CirqNumQubits(gate)
    /\ \A j, k \in 1..Len(qubits) : j # k => qubits[j] # qubits[k]

CirqOp(gate, qubits) == [gate |-> gate, qubits |-> qubits]

\* the body of the exporter's loop: the operation one gate_model appends, as
\* [appended, op]; appended is FALSE when the gate is skipped or an exception
\* was caught.  Controls on a gate for which Cirq's controlled() returns
\* another class than ControlledGate (powers of X and Z) are not modelled.
GateModelToOp(gate_model, num_qubits) ==
    LET gate_name_lower == Lower(gate_model.name)
        skipped == [appended |-> FALSE, op |-> CirqOp(CirqGate("", "", "", 0), <<>>)]
    IN  IF gate_name_lower \notin DOMAIN CIRQT_GATE_MAP_TO_CIRQT THEN skipped
        ELSE IF ~IndicesInList(gate_model.targets, num_qubits) THEN skipped
        ELSE
        LET cirq_gate_constructor == CIRQT_GATE_MAP_TO_CIRQT[gate_name_lower]
            cirq_target_qubits == QubitsAt(gate_model.targets, num_qubits)
            params == IF Truthy(gate_model.parameters)
                      THEN [k \in 1..Len(gate_model.parameters.val) |->
                               CirqParam(gate_model.parameters.val[k])]
                      ELSE <<>>
            \* calling a rotation function without its angle raises TypeError
            instantiated == ~cirq_gate_constructor.factory \/ params # <<>>
            gate_instance ==
                IF cirq_gate_constructor.factory
                THEN Rotation(cirq_gate_constructor.gate.cls, params[1])
                ELSE cirq_gate_constructor.gate
        IN  IF ~instantiated THEN skipped
            ELSE IF Truthy(gate_model.controls)
            THEN IF ~IndicesInList(gate_model.controls.val, num_qubits)
                 THEN skipped
                 ELSE
                 LET cirq_control_qubits ==
                         QubitsAt(gate_model.controls.val, num_qubits)
                     qubits ==
                         IF gate_name_lower \in {"cx", "cnot", "cz", "swap"}
                         THEN IF gate_name_lower \in {"cx", "cnot", "cz"}
                                 /\ Len(cirq_control_qubits) = 1
                                 /\ Len(cirq_target_qubits) = 1
                              THEN cirq_control_qubits \o cirq_target_qubits
                              ELSE cirq_target_qubits
                         ELSE cirq_control_qubits \o cirq_target_qubits
                     gate ==
                         IF gate_name_lower \in {"cx", "cnot", "cz", "swap"}
                         THEN gate_instance
                         ELSE [gate_instance EXCEPT
                                  !.num_controls = Len(cirq_control_qubits)]
                 IN  IF gate_name_lower \notin {"cx", "cnot", "cz", "swap"}
                        /\ ~OnAccepts(gate_instance, cirq_target_qubits)
                     THEN skipped
                     ELSE IF OnAccepts(gate, qubits)
                     THEN [appended |-> TRUE, op |-> CirqOp(gate, qubits)]
                     ELSE skipped
            ELSE IF OnAccepts(gate_instance, cirq_target_qubits)
            THEN [appended |-> TRUE,
                  op |-> CirqOp(gate_instance, cirq_target_qubits)]
            ELSE skipped

\* circuit.append(op): the operation joins the earliest moment that follows
\* every moment acting on one of its qubits
CircuitAppend(moments, op) ==
    LET touching == {m \in 1..Len(moments) :
                        \E k \in 1..Len(moments[m]) :
                            Range(moments[m][k].qubits) \cap Range(op.qubits) # {}}
        at == IF touching = {} THEN 1 ELSE Max(touching) + 1
    IN  IF at > Len(moments) THEN Append(moments, <<op>>)
        ELSE [moments EXCEPT ![at] = Append(@, op)]

\* the for loop over circuit_json.gates
RECURSIVE AppendGateModels(_, _, _, _)
AppendGateModels(moments, gates, k, num_qubits) ==
    IF k > Len(gates) THEN moments
    ELSE LET r == GateModelToOp(gates[k], num_qubits)
         IN  AppendGateModels(IF r.appended THEN CircuitAppend(moments, r.op)
                              ELSE moments,
                              gates, k + 1, num_qubits)

circuit_json_to_cirq(circuit_json) ==
    AppendGateModels(<<>>, circuit_json.gates, 1, circuit_json.num_qubits)

\* the operations of a circuit in the order "for moment in cc: for op in
\* moment.operations" visits them
RECURSIVE AllOperations(_)
AllOperations(moments) ==
    IF moments = <<>> THEN <<>>
    ELSE Head(moments) \o AllOperations(Tail(moments))

\* qubit_to_index_map: the rank of a LineQubit among the circuit's qubits
QubitToIndex(moments, q) ==
    LET ops == AllOperations(moments)
        all_qubits == UNION {Range(ops[k].qubits) : k \in 1..Len(ops)}
    IN  Cardinality({p \in all_qubits : p < q})

\* the body of the importer's loops: the GateModel of one operation that is
\* not a ControlledGate
OperationToGate(moments, op) ==
    LET gate == op.gate
        gate_name == _get_cirq_gate_name(gate)
        op_qubits_indices ==
            [k \in 1..Len(op.qubits) |-> QubitToIndex(moments, op.qubits[k])]
        parameters ==
            IF IsInstance(gate, "Rx") \/ IsInstance(gate, "Ry")
               \/ IsInstance(gate, "Rz")
            THEN <<Float(gate.rads)>>
            ELSE IF IsInstance(gate, "ZPowGate")
                    /\ ~\E e \in {"1", "0.5", "-0.5", "0.25", "-0.25"} :
                           ExponentIs(gate, e)
            THEN <<Float(gate.exponent)>>
            ELSE <<>>
        split == /\ IsInstance(gate, "CNotPowGate") \/ IsInstance(gate, "CZPowGate")
                 /\ Len(op_qubits_indices) = 2
    IN  GateModel(Lower(gate_name),
                  IF split THEN <<op_qubits_indices[2]>> ELSE op_qubits_indices,
                  IF split THEN Some(<<op_qubits_indices[1]>>) ELSE NoneSeq,
                  IF parameters # <<>> THEN Some(parameters) ELSE NoneSeq)

\* reading gate.control_qubits of a ControlledGate raises AttributeError (a
\* gate holds no qubits), and the importer catches nothing
CirqImporterRaises(moments) ==
    \E k \in 1..Len(AllOperations(moments)) :
        IsInstance(AllOperations(moments)[k].gate, "ControlledGate")

\* defined where the importer does not raise
cirq_circuit_to_json(cc) ==
    LET ops == AllOperations(cc)
        gates_data == [k \in 1..Len(ops) |-> OperationToGate(cc, ops[k])]
        gate_counts_dict == GateCountsDict(gates_data)
        num_qubits ==
            Cardinality(UNION {Range(ops[k].qubits) : k \in 1..Len(ops)})
    IN  CircuitJSON(num_qubits, gates_data, Some("Converted Cirq Circuit"),
                    IF gate_counts_dict # <<>> THEN Some(gate_counts_dict)
                    ELSE NoneSeq,
                    NoneInt)

-----------------------------------------------------------------------------
(* The object-graph conversions as operations on a request. *)

CircuitJsonToQiskit ==
    /\ pc = "request"
    /\ raised' = QuantumCircuitRaises(circuit.num_qubits)
    /\ qiskit_qc' = IF raised' THEN NoQuantumCircuit
                    ELSE circuit_json_to_qiskit(circuit)
    /\ pc' = "circuit_json_to_qiskit"
    /\ UNCHANGED <<circuit, passes, qasm_string, pass_out, optimized, status,
                   resp_circuit, qasm_lines, script_lines, loads_called,
                   cirq_circuit, imported,
                   passes_applied>>

CircuitJsonToCirq ==
    /\ pc = "request"
    /\ raised' = FALSE
    /\ cirq_circuit' = circuit_json_to_cirq(circuit)
    /\ pc' = "circuit_json_to_cirq"
    /\ UNCHANGED <<circuit, passes, qasm_string, pass_out, optimized, status,
                   resp_circuit, qasm_lines, script_lines, loads_called,
                   qiskit_qc, imported,
                   passes_applied>>

\* the importer on the circuit the exporter built or on a circuit built elsewhere
QiskitCircuitToJson ==
    /\ \/ pc = "circuit_json_to_qiskit" /\ ~raised
       \/ pc = "qiskit_source"
    /\ imported' = qiskit_circuit_to_json(qiskit_qc)
    /\ raised' = FALSE
    /\ pc' = "qiskit_circuit_to_json"
    /\ UNCHANGED <<circuit, passes, qasm_string, pass_out, optimized, status,
                   resp_circuit, qasm_lines, script_lines, loads_called,
                   qiskit_qc, cirq_circuit,
                   passes_applied>>

CirqCircuitToJson ==
    /\ pc \in {"circuit_json_to_cirq", "cirq_source"}
    /\ raised' = CirqImporterRaises(cirq_circuit)
    /\ imported' = IF raised' THEN NoCircuit
                   ELSE cirq_circuit_to_json(cirq_circuit)
    /\ pc' = "cirq_circuit_to_json"
    /\ UNCHANGED <<circuit, passes, qasm_string, pass_out, optimized, status,
                   resp_circuit, qasm_lines, script_lines, loads_called,
                   qiskit_qc, cirq_circuit,
                   passes_applied>>

-----------------------------------------------------------------------------
(* Requests to the optimize endpoint. *)

OptGates ==
    { GateModel("h", <<0>>, NoneSeq, NoneSeq),
      GateModel("h", <<1>>, NoneSeq, NoneSeq),
      GateModel("x", <<0>>, NoneSeq, NoneSeq),
      GateModel("rx", <<1>>, NoneSeq, Some(<<Float("0.5")>>)),
      GateModel("cx", <<1>>, Some(<<0>>), NoneSeq),
      GateModel("swap", <<0, 1>>, NoneSeq, NoneSeq),
      GateModel("cnot", <<1>>, Some(<<0>>), NoneSeq),
      GateModel("foo", <<0>>, NoneSeq, NoneSeq) }

OptCircuits ==
    { CircuitJSON(n, g, Some("Test Circuit"), st[1], st[2]) :
        n \in {-1, 0, 2},
        g \in SeqsUpTo(OptGates, MaxOptGates),
        st \in {<<NoneSeq, NoneInt>>, <<Some([h |-> 2, x |-> 1]), Some(3)>>} }

PassNames == {"remove_self_inverse_pairs", "non_existent_pass"}

InitOptimize ==
    /\ pc = "request"
    /\ circuit \in OptCircuits
    /\ passes \in SeqsUpTo(PassNames, MaxPasses)
    /\ qasm_string = <<>>
    /\ pass_out = NoCircuit
    /\ optimized = NoCircuit
    /\ status = 0
    /\ resp_circuit = NoCircuit
    /\ qasm_lines = <<>>
    /\ script_lines = <<>>
    /\ loads_called = FALSE
    /\ qiskit_qc = NoQuantumCircuit
    /\ cirq_circuit = <<>>
    /\ imported = NoCircuit
    /\ raised = FALSE
    /\ passes_applied = 0

NextOptimize == OptimizeCircuit

SpecOptimize == InitOptimize /\ [][NextOptimize]_vars

-----------------------------------------------------------------------------
(* Requests to the exporters. *)

ExportGates ==
    { GateModel("h", <<0>>, NoneSeq, NoneSeq),
      GateModel("cx", <<1>>, Some(<<0>>), NoneSeq),
      GateModel("cx", <<0, 1>>, NoneSeq, NoneSeq),
      GateModel("ccx", <<2>>, Some(<<0, 1>>), NoneSeq),
      GateModel("foo", <<1, 0>>, Some(<<2, 0>>), NoneSeq),
      GateModel("foo", <<0>>, NoneSeq, NoneSeq),
      GateModel("h", <<1>>, Some(<<0>>), NoneSeq),
      GateModel("rz", <<0>>, NoneSeq, Some(<<Float("0.5")>>)),
      GateModel("u3", <<1>>, NoneSeq,
                Some(<<Str("pi/2"), Float("0.5"), Str("theta")>>)),
      GateModel("h", <<>>, Some(<<>>), Some(<<>>)) }

ExportCircuits ==
    { CircuitJSON(n, g, Some("Test Circuit"), NoneSeq, NoneInt) :
        n \in {-1, 0, 3}, g \in SeqsUpTo(ExportGates, MaxExportGates) }

InitExport ==
    /\ pc = "request"
    /\ circuit \in ExportCircuits
    /\ passes = <<>>
    /\ qasm_string = <<>>
    /\ pass_out = NoCircuit
    /\ optimized = NoCircuit
    /\ status = 0
    /\ resp_circuit = NoCircuit
    /\ qasm_lines = <<>>
    /\ script_lines = <<>>
    /\ loads_called = FALSE
    /\ qiskit_qc = NoQuantumCircuit
    /\ cirq_circuit = <<>>
    /\ imported = NoCircuit
    /\ raised = FALSE
    /\ passes_applied = 0

NextExport == ExportCircuitToQasm \/ ExportPennylaneScript

SpecExport == InitExport /\ [][NextExport]_vars

-----------------------------------------------------------------------------
(* Requests to the parse endpoint. *)

\* the statements a parse request carries after its header
ParseBodies ==
    { <<>>,
      <<" ", "include", " ", "\"qelib1.inc\"", ";", " ", "qreg", " ", "q[1]",
        ";", " ", "h", " ", "q[0]", ";">>,
      <<"\n", "include", " ", "\"qelib1.inc\"", ";", "\n", "qreg", " ", "q[2]",
        ";", "\n", "cx", " ", "q[0]", ",", " ", "q[1]", ";">>,
      <<"\n", "qubit", " ", "q", ";", "\n", "h", " ", "q", ";">>,
      <<"\n", "include", " ", "\"qelib1.inc\"", ";", "\n", "qreg", " ", "q[1]",
        ";", "\n", "h", " ", "q[4]", ";">> }

\* header ; body, for every spelling of the header the model covers
ParseTexts ==
    { lead \o <<keyword>> \o gap \o <<version>> \o semicolon \o body :
        lead \in SeqsUpTo(WhiteSpace, MaxLeading),
        keyword \in {"OPENQASM", "openqasm", "OpenQASM", "QASM"},
        gap \in {<<" ">>, <<" ", " ">>, <<"\n">>},
        version \in {"2.0", "3.0", "2", "2.1"},
        semicolon \in {<<";">>, <<" ", ";">>, <<>>},
        body \in ParseBodies }

InitParse ==
    /\ pc = "parse_request"
    /\ circuit = NoCircuit
    /\ passes = <<>>
    /\ qasm_string \in ParseTexts
    /\ pass_out = NoCircuit
    /\ optimized = NoCircuit
    /\ status = 0
    /\ resp_circuit = NoCircuit
    /\ qasm_lines = <<>>
    /\ script_lines = <<>>
    /\ loads_called = FALSE
    /\ qiskit_qc = NoQuantumCircuit
    /\ cirq_circuit = <<>>
    /\ imported = NoCircuit
    /\ raised = FALSE
    /\ passes_applied = 0

NextParse == ParseQasmToJson

SpecParse == InitParse /\ [][NextParse]_vars

-----------------------------------------------------------------------------
(* Circuits exported to text and imported again. *)

RoundTripGates ==
    { GateModel("h", <<0>>, NoneSeq, NoneSeq),
      GateModel("x", <<1>>, NoneSeq, NoneSeq),
      GateModel("rz", <<0>>, NoneSeq, Some(<<Float("0.5")>>)),
      GateModel("swap", <<0, 1>>, NoneSeq, NoneSeq),
      GateModel("cx", <<1>>, Some(<<0>>), NoneSeq),
      GateModel("ccx", <<2>>, Some(<<0, 1>>), NoneSeq),
      GateModel("ch", <<1>>, Some(<<0>>), NoneSeq),
      GateModel("crz", <<0>>, Some(<<1>>), Some(<<Float("0.5")>>)),
      GateModel("h", <<0, 1>>, NoneSeq, NoneSeq),
      GateModel("foo", <<0>>, NoneSeq, NoneSeq) }

RoundTripCircuits ==
    { CircuitJSON(n, g, Some("Test Circuit"), NoneSeq, NoneInt) :
        n \in {0, 2, 3}, g \in SeqsUpTo(RoundTripGates, MaxRoundTripGates) }

InitRoundTrip ==
    /\ pc = "request"
    /\ circuit \in RoundTripCircuits
    /\ passes = <<>>
    /\ qasm_string = <<>>
    /\ pass_out = NoCircuit
    /\ optimized = NoCircuit
    /\ status = 0
    /\ resp_circuit = NoCircuit
    /\ qasm_lines = <<>>
    /\ script_lines = <<>>
    /\ loads_called = FALSE
    /\ qiskit_qc = NoQuantumCircuit
    /\ cirq_circuit = <<>>
    /\ imported = NoCircuit
    /\ raised = FALSE
    /\ passes_applied = 0

NextRoundTrip == ExportCircuitToQasm \/ SubmitExportedText \/ ParseQasmToJson

SpecRoundTrip == InitRoundTrip /\ [][NextRoundTrip]_vars

-----------------------------------------------------------------------------
(* Requests to the cancellation pass. *)

PassGates ==
    { GateModel("h", <<0>>, NoneSeq, NoneSeq),
      GateModel("h", <<1>>, NoneSeq, NoneSeq),
      GateModel("H", <<0>>, NoneSeq, NoneSeq),
      GateModel("x", <<0>>, NoneSeq, NoneSeq),
      GateModel("s", <<0>>, NoneSeq, NoneSeq),
      GateModel("h", <<0>>, Some(<<>>), Some(<<>>)),
      GateModel("h", <<0>>, Some(<<1>>), NoneSeq),
      GateModel("h", <<0>>, NoneSeq, Some(<<Float("0.5")>>)),
      GateModel("h", <<0, 1>>, NoneSeq, NoneSeq) }

PassCircuits ==
    { CircuitJSON(2, g, Some("Test Circuit"), st[1], st[2]) :
        g \in SeqsUpTo(PassGates, MaxPassGates),
        st \in {<<NoneSeq, NoneInt>>, <<Some([h |-> 2, x |-> 1]), Some(3)>>} }

InitPass ==
    /\ pc = "request"
    /\ circuit \in PassCircuits
    /\ passes = <<>>
    /\ qasm_string = <<>>
    /\ pass_out = NoCircuit
    /\ optimized = NoCircuit
    /\ status = 0
    /\ resp_circuit = NoCircuit
    /\ qasm_lines = <<>>
    /\ script_lines = <<>>
    /\ loads_called = FALSE
    /\ qiskit_qc = NoQuantumCircuit
    /\ cirq_circuit = <<>>
    /\ imported = NoCircuit
    /\ raised = FALSE
    /\ passes_applied = 0

\* a direct call of remove_self_inverse_pairs on the request's circuit
RemoveSelfInversePairs ==
    /\ pc = "request"
    /\ pass_out' = remove_self_inverse_pairs(circuit)
    /\ pc' = "remove_self_inverse_pairs"
    /\ UNCHANGED <<circuit, passes, qasm_string, optimized, status,
                   resp_circuit, qasm_lines, script_lines, loads_called,
                   qiskit_qc, cirq_circuit, imported, raised,
                   passes_applied>>

NextPass == RemoveSelfInversePairs

SpecPass == InitPass /\ [][NextPass]_vars

-----------------------------------------------------------------------------
(* POST /circuit/optimize, one step for every turn of the handler's for loop, *)
(* on requests whose pass list names the cancellation pass several times.    *)

\* lines 56-62: optimized_circuit_json = current_circuit_json
BeginOptimize ==
    /\ pc = "request"
    /\ optimized' = circuit
    /\ passes_applied' = 0
    /\ pc' = "for pass_name"
    /\ UNCHANGED <<circuit, passes, qasm_string, pass_out, status,
                   resp_circuit, qasm_lines, script_lines, loads_called,
                   qiskit_qc, cirq_circuit, imported, raised>>

\* one turn of the loop with the optimizer called on the request's circuit
ApplyNextPassToRequestCircuit ==
    /\ pc = "for pass_name"
    /\ passes_applied < Len(passes)
    /\ optimized' =
          IF passes[passes_applied + 1] \in OPTIMIZATION_PASS_REGISTRY
          THEN remove_self_inverse_pairs(circuit)
          ELSE optimized
    /\ passes_applied' = passes_applied + 1
    /\ UNCHANGED <<pc, circuit, passes, qasm_string, pass_out, status,
                   resp_circuit, qasm_lines, script_lines, loads_called,
                   qiskit_qc, cirq_circuit, imported, raised>>

\* lines 64-71: one turn of the loop
ApplyNextPass ==
    /\ pc = "for pass_name"
    /\ passes_applied < Len(passes)
    /\ optimized' =
          IF passes[passes_applied + 1] \in OPTIMIZATION_PASS_REGISTRY
          THEN remove_self_inverse_pairs(optimized)
          ELSE optimized
    /\ passes_applied' = passes_applied + 1
    /\ UNCHANGED <<pc, circuit, passes, qasm_string, pass_out, status,
                   resp_circuit, qasm_lines, script_lines, loads_called,
                   qiskit_qc, cirq_circuit, imported, raised>>

\* lines 73-87: the loop is over, the statistics are recalculated
ReturnOptimized ==
    /\ pc = "for pass_name"
    /\ passes_applied = Len(passes)
    /\ resp_circuit' = RecalculateStatistics(optimized)
    /\ status' = 200
    /\ pc' = "optimize_circuit"
    /\ UNCHANGED <<circuit, passes, qasm_string, pass_out, optimized,
                   qasm_lines, script_lines, loads_called, qiskit_qc,
                   cirq_circuit, imported, raised, passes_applied>>

RepeatGates ==
    { GateModel("h", <<0>>, NoneSeq, NoneSeq),
      GateModel("x", <<0>>, NoneSeq, NoneSeq),
      GateModel("s", <<0>>, NoneSeq, NoneSeq) }

RepeatCircuits ==
    { CircuitJSON(2, g, Some("Test Circuit"), st[1], st[2]) :
        g \in SeqsUpTo(RepeatGates, MaxRepeatGates),
        st \in {<<NoneSeq, NoneInt>>, <<Some([h |-> 2, x |-> 1]), Some(3)>>} }

InitRepeat ==
    /\ pc = "request"
    /\ circuit \in RepeatCircuits
    /\ passes \in SeqsUpTo(PassNames, MaxApplications)
    /\ qasm_string = <<>>
    /\ pass_out = NoCircuit
    /\ optimized = NoCircuit
    /\ status = 0
    /\ resp_circuit = NoCircuit
    /\ qasm_lines = <<>>
    /\ script_lines = <<>>
    /\ loads_called = FALSE
    /\ qiskit_qc = NoQuantumCircuit
    /\ cirq_circuit = <<>>
    /\ imported = NoCircuit
    /\ raised = FALSE
    /\ passes_applied = 0

NextRepeat ==
    \/ BeginOptimize
    \/ ApplyNextPass
    \/ ReturnOptimized

SpecRepeat == InitRepeat /\ [][NextRepeat]_vars

\* the handler is sequential code without a blocking call: the assignment
\* before the loop and every turn of the loop that is due are taken
FairSpecRepeat ==
    SpecRepeat /\ WF_vars(BeginOptimize) /\ WF_vars(ApplyNextPass)

-----------------------------------------------------------------------------
(* Calls of the object-graph conversions. *)

\* one gate for every name of the two construction tables, built as the
\* name's recipe asks, and the angles a rotation is built with
RegistryGates ==
    { GateModel(n, <<0>>, NoneSeq, NoneSeq) :
        n \in {"h", "x", "y", "z", "s", "sdg", "t", "tdg", "id"} }
    \cup { GateModel(n, <<0>>, NoneSeq, Some(<<a>>)) :
             n \in {"rx", "ry", "rz", "p"},
             a \in {Float("0.5"), Float("3.141592653589793"), Str("pi/2")} }
    \cup { GateModel(n, <<1>>, Some(<<0>>), NoneSeq) : n \in {"cx", "cnot", "cz"} }
    \cup { GateModel(n, <<2>>, Some(<<0, 1>>), NoneSeq) : n \in {"ccx", "toffoli"} }
    \cup { GateModel(n, <<0>>, NoneSeq,
                     Some(<<Float("0.5"), Float("0.785"), Float("1.0")>>)) :
             n \in {"u", "u3"} }
    \cup { GateModel("swap", <<0, 1>>, NoneSeq, NoneSeq) }

InitRegistry ==
    /\ pc = "request"
    /\ \E g \in RegistryGates, name \in {"", "Test Circuit"} :
          circuit = CircuitJSON(3, <<g>>,
                                IF name = "" THEN NoneStr ELSE Some(name),
                                NoneSeq, NoneInt)
    /\ passes = <<>>
    /\ qasm_string = <<>>
    /\ pass_out = NoCircuit
    /\ optimized = NoCircuit
    /\ status = 0
    /\ resp_circuit = NoCircuit
    /\ qasm_lines = <<>>
    /\ script_lines = <<>>
    /\ loads_called = FALSE
    /\ qiskit_qc = NoQuantumCircuit
    /\ cirq_circuit = <<>>
    /\ imported = NoCircuit
    /\ raised = FALSE
    /\ passes_applied = 0

NextRegistry ==
    \/ CircuitJsonToQiskit
    \/ CircuitJsonToCirq
    \/ QiskitCircuitToJson
    \/ CirqCircuitToJson

SpecRegistry == InitRegistry /\ [][NextRegistry]_vars

ObjectGates ==
    { GateModel("h", <<0>>, NoneSeq, NoneSeq),
      GateModel("x", <<1>>, NoneSeq, NoneSeq),
      GateModel("rz", <<1>>, NoneSeq, Some(<<Float("0.5")>>)),
      GateModel("cx", <<1>>, Some(<<0>>), NoneSeq),
      GateModel("h", <<1>>, Some(<<0>>), NoneSeq),
      \* a qubit index that is too large, and a negative one
      GateModel("h", <<2>>, NoneSeq, NoneSeq),
      GateModel("x", <<-1>>, NoneSeq, NoneSeq),
      GateModel("cx", <<0>>, Some(<<-3>>), NoneSeq),
      \* names without a recipe
      GateModel("foo", <<0>>, NoneSeq, NoneSeq),
      GateModel("ch", <<1>>, Some(<<0>>), NoneSeq),
      \* parameters the name does not declare
      GateModel("h", <<1>>, NoneSeq, Some(<<Float("0.5")>>)),
      GateModel("rx", <<0>>, NoneSeq, NoneSeq),
      GateModel("rx", <<0>>, NoneSeq, Some(<<Float("0.5"), Float("1.0")>>)),
      \* string parameters: a symbol, and a token the Cirq exporter knows
      GateModel("rx", <<0>>, NoneSeq, Some(<<Str("theta")>>)),
      GateModel("rz", <<1>>, NoneSeq, Some(<<Str("pi")>>)) }

ObjectCircuits ==
    { CircuitJSON(2, gates, Some("Test Circuit"), NoneSeq, NoneInt) :
        gates \in SeqsUpTo(ObjectGates, MaxObjectGates) }

InitObjectGraph ==
    /\ pc = "request"
    /\ circuit \in ObjectCircuits
    /\ passes = <<>>
    /\ qasm_string = <<>>
    /\ pass_out = NoCircuit
    /\ optimized = NoCircuit
    /\ status = 0
    /\ resp_circuit = NoCircuit
    /\ qasm_lines = <<>>
    /\ script_lines = <<>>
    /\ loads_called = FALSE
    /\ qiskit_qc = NoQuantumCircuit
    /\ cirq_circuit = <<>>
    /\ imported = NoCircuit
    /\ raised = FALSE
    /\ passes_applied = 0

NextObjectGraph ==
    \/ CircuitJsonToQiskit
    \/ CircuitJsonToCirq
    \/ QiskitCircuitToJson
    \/ CirqCircuitToJson

SpecObjectGraph == InitObjectGraph /\ [][NextObjectGraph]_vars

-----------------------------------------------------------------------------
(* Calls of the importers on circuits built with the toolkits. *)

\* an instruction of a QuantumCircuit
Instruction(name, params, num_ctrl_qubits, qubits) ==
    [name |-> name, params |-> params, num_ctrl_qubits |-> num_ctrl_qubits,
     qubits |-> qubits]

SourceInstructions ==
    { Instruction("h", <<>>, NoneInt, <<0>>),
      Instruction("x", <<>>, NoneInt, <<1>>),
      Instruction("rz", <<Float("0.5")>>, NoneInt, <<0>>),
      Instruction("swap", <<>>, NoneInt, <<0, 1>>),
      Instruction("cx", <<>>, Some(1), <<0, 1>>),
      Instruction("cx", <<>>, Some(1), <<2, 0>>),
      Instruction("cz", <<>>, Some(1), <<1, 2>>),
      Instruction("ccx", <<>>, Some(2), <<0, 1, 2>>),
      Instruction("mcx", <<>>, Some(3), <<3, 2, 1, 0>>),
      Instruction("ch", <<>>, Some(1), <<0, 1>>),
      \* an instruction named cx whose operation has no num_ctrl_qubits
      Instruction("cx", <<>>, NoneInt, <<1, 0>>) }

SourceQuantumCircuits ==
    { [num_qubits |-> 4, name |-> name, data |-> data] :
        name \in {"", "bell"},
        data \in SeqsUpTo(SourceInstructions, MaxSourceOps) }

SourceOperations ==
    { CirqOp(CirqGate("HPowGate", "1", "", 0), <<0>>),
      CirqOp(CirqGate("XPowGate", "1", "", 0), <<1>>),
      CirqOp(CirqGate("XPowGate", "0.5", "", 0), <<0>>),
      CirqOp(CirqGate("ZPowGate", "0.3", "", 0), <<0>>),
      CirqOp(Rotation("Rx", "0.5"), <<0>>),
      CirqOp(Rotation("Rx", "3.141592653589793"), <<1>>),
      CirqOp(Rotation("Ry", "0.5"), <<1>>),
      CirqOp(Rotation("Rz", "0.5"), <<0>>),
      CirqOp(Rotation("Rz", "1.5707963267948966"), <<5>>),
      CirqOp(CirqGate("CNotPowGate", "1", "", 0), <<0, 1>>),
      CirqOp(CirqGate("SwapPowGate", "1", "", 0), <<1, 5>>),
      CirqOp(CirqGate("HPowGate", "1", "", 1), <<0, 1>>),
      CirqOp([Rotation("Rx", "0.5") EXCEPT !.num_controls = 2], <<5, 1, 0>>) }

\* the circuits cirq.Circuit().append builds from at most MaxSourceOps operations
RECURSIVE AppendAll(_, _, _)
AppendAll(moments, ops, k) ==
    IF k > Len(ops) THEN moments
    ELSE AppendAll(CircuitAppend(moments, ops[k]), ops, k + 1)

SourceCirqCircuits ==
    { AppendAll(<<>>, ops, 1) : ops \in SeqsUpTo(SourceOperations, MaxSourceOps) }

InitImport ==
    /\ \/ /\ pc = "qiskit_source"
          /\ qiskit_qc \in SourceQuantumCircuits
          /\ cirq_circuit = <<>>
       \/ /\ pc = "cirq_source"
          /\ qiskit_qc = NoQuantumCircuit
          /\ cirq_circuit \in SourceCirqCircuits
    /\ circuit = NoCircuit
    /\ passes = <<>>
    /\ qasm_string = <<>>
    /\ pass_out = NoCircuit
    /\ optimized = NoCircuit
    /\ status = 0
    /\ resp_circuit = NoCircuit
    /\ qasm_lines = <<>>
    /\ script_lines = <<>>
    /\ loads_called = FALSE
    /\ imported = NoCircuit
    /\ raised = FALSE
    /\ passes_applied = 0

NextImport == QiskitCircuitToJson \/ CirqCircuitToJson

SpecImport == InitImport /\ [][NextImport]_vars

-----------------------------------------------------------------------------
(* Claims about the cancellation pass. *)

\* the pair condition in the words of the pass's contract; exact_name says
\* whether the name itself, or the name lower-cased, must be in the set
ContractPair(a, b, exact_name) ==
    /\ a.name = b.name
    /\ IF exact_name THEN a.name \in {"h", "x", "y", "z"}
                     ELSE Lower(a.name) \in {"h", "x", "y", "z"}
    /\ Len(a.targets) = 1 /\ Len(b.targets) = 1
    /\ ~Truthy(a.controls) /\ ~Truthy(b.controls)
    /\ a.targets[1] = b.targets[1]
    /\ ~Truthy(a.parameters) /\ ~Truthy(b.parameters)

\* one left-to-right greedy scan, on the remaining suffix of the input
RECURSIVE GreedyScan(_, _)
GreedyScan(gates, exact_name) ==
    IF gates = <<>> THEN <<>>
    ELSE IF Len(gates) >= 2 /\ ContractPair(gates[1], gates[2], exact_name)
         THEN GreedyScan(SubSeq(gates, 3, Len(gates)), exact_name)
         ELSE <<gates[1]>> \o GreedyScan(Tail(gates), exact_name)

\* C1 as stated: the pass returns the gates of one greedy scan that drops a pair
\* only if its name is literally one of h, x, y, z (and the other conditions hold).
C1_GreedyScanExactName ==
    pc = "remove_self_inverse_pairs" =>
        pass_out.gates = GreedyScan(circuit.gates, TRUE)

\* C1 amended: the pass returns the gates of one greedy scan that drops a pair
\* iff both gates have the same name, that name lower-cased is one of h, x, y, z,
\* each has one target and no controls, the targets are equal and neither has
\* parameters; no gate is dropped otherwise.
C1_GreedyScanLowerName ==
    pc = "remove_self_inverse_pairs" =>
        pass_out.gates = GreedyScan(circuit.gates, FALSE)

\* a pair was dropped, a gate after it was kept
C1_Witness ==
    /\ pc = "remove_self_inverse_pairs"
    /\ Len(circuit.gates) = 4
    /\ ContractPair(circuit.gates[2], circuit.gates[3], FALSE)
    /\ pass_out.gates = <<circuit.gates[1], circuit.gates[4]>>

\* C2: the circuit the pass returns has gate_counts None and depth None, whatever
\* the input carried and whether or not a pair was removed.
C2_StatisticsCleared ==
    pc = "remove_self_inverse_pairs" =>
        ~pass_out.gate_counts.some /\ ~pass_out.depth.some

\* the input carried statistics and a pair was removed
C2_Witness ==
    /\ pc = "remove_self_inverse_pairs"
    /\ circuit.gate_counts.some /\ circuit.depth.some
    /\ Len(pass_out.gates) < Len(circuit.gates)
    /\ ~pass_out.gate_counts.some

-----------------------------------------------------------------------------
(* Claims about the optimize endpoint. *)

\* the invariants of the canonical circuit model: names the construction
\* table declares, a non-negative qubit count, non-empty targets, every index
\* in range, controls disjoint from targets
WellFormedGate(g, num_qubits) ==
    /\ g.name \in DOMAIN QISKIT_GATE_MAP
    /\ g.targets # <<>>
    /\ \A q \in Range(g.targets) \cup Range(g.controls.val) :
          0 <= q /\ q < num_qubits
    /\ Range(g.targets) \cap Range(g.controls.val) = {}

WellFormed(c) ==
    /\ c.num_qubits >= 0
    /\ \A k \in 1..Len(c.gates) : WellFormedGate(c.gates[k], c.num_qubits)

\* the depth of a gate sequence: the longest chain of gates through shared
\* qubits, by induction on the sequence
RECURSIVE ChainEndingAt(_, _)
ChainEndingAt(gates, k) ==
    LET qs(j) == Range(gates[j].targets) \cup Range(gates[j].controls.val)
        before == {j \in 1..(k - 1) : qs(j) \cap qs(k) # {}}
    IN  1 + Max({0} \cup {ChainEndingAt(gates, j) : j \in before})

SequenceDepth(gates) ==
    Max({0} \cup {ChainEndingAt(gates, k) : k \in 1..Len(gates)})

\* number of gates named n in a gate sequence
Occurrences(gates, n) == Cardinality({k \in 1..Len(gates) : gates[k].name = n})

\* C3: with a pass list of names absent from the registry only, optimize succeeds
\* and returns the input's gate sequence element for element, also when the input
\* carries no gate_counts or no depth.  Stated for well-formed circuits.
C3_UnknownPassKeepsGates ==
    (/\ pc = "optimize_circuit"
     /\ WellFormed(circuit)
     /\ \A k \in 1..Len(passes) : passes[k] \notin OPTIMIZATION_PASS_REGISTRY)
    => (status = 200 /\ resp_circuit.gates = circuit.gates)

\* C4: when remove_self_inverse_pairs was applied, the response's gate_counts is
\* present and counts each name's occurrences in the returned gates, and its depth
\* is present and is the depth of the returned gates.  Stated for well-formed
\* circuits.
C4_StatisticsRecomputed ==
    (/\ pc = "optimize_circuit"
     /\ WellFormed(circuit)
     /\ \E k \in 1..Len(passes) : passes[k] = "remove_self_inverse_pairs")
    => (/\ resp_circuit.gate_counts.some
        /\ DOMAIN resp_circuit.gate_counts.val
              = {resp_circuit.gates[k].name : k \in 1..Len(resp_circuit.gates)}
        /\ \A n \in DOMAIN resp_circuit.gate_counts.val :
              resp_circuit.gate_counts.val[n] = Occurrences(resp_circuit.gates, n)
        /\ resp_circuit.depth.some
        /\ resp_circuit.depth.val = SequenceDepth(resp_circuit.gates))

\* C5: the statistics recomputation does not change the gate sequence: the
\* response's gates are the gates the pass loop ended with, element for element.
\* Stated for well-formed circuits.
C5_RecomputationKeepsGates ==
    (pc = "optimize_circuit" /\ WellFormed(circuit))
    => resp_circuit.gates = optimized.gates

-----------------------------------------------------------------------------
(* Claims about the exporters. *)

\* the text exporter has answered
Exported == qasm_lines # <<>>

\* the script exporter has answered
Scripted == script_lines # <<>>

\* the line of the exported text that stands for gate k of the request
LineOfGate(k) == qasm_lines[Len(qasm_lines) - Len(circuit.gates) + k]

\* the qubit references of a gate line, in the order they are written: the
\* tokens between the line's blank and its semicolon, commas left out
RefsOfLine(line) ==
    LET blank == CHOOSE i \in 1..Len(line) :
                    line[i] = " " /\ \A j \in 1..(i - 1) : line[j] # " "
        IsRef(tok) == tok \notin {",", ";"}
    IN  SelectSeq(SubSeq(line, blank + 1, Len(line)), IsRef)

\* C7: in every gate line of the exported text the qubit references are the
\* gate's controls in stored order followed by its targets in stored order.
C7_ControlsBeforeTargets ==
    Exported =>
        \A k \in 1..Len(circuit.gates) :
            LET g == circuit.gates[k]
                refs == RefsOfLine(LineOfGate(k))
                nc == Len(g.controls.val)
            IN  /\ Len(refs) = nc + Len(g.targets)
                /\ \A j \in 1..nc : refs[j] = QRef(g.controls.val[j])
                /\ \A j \in 1..Len(g.targets) : refs[nc + j] = QRef(g.targets[j])

\* a gate with unsorted controls that share an index with its targets was exported
C7_Witness ==
    /\ Exported
    /\ \E k \in 1..Len(circuit.gates) :
          /\ circuit.gates[k].controls = Some(<<2, 0>>)
          /\ circuit.gates[k].targets = <<1, 0>>
          /\ RefsOfLine(LineOfGate(k)) = <<"q[2]", "q[0]", "q[1]", "q[0]">>

\* C8: the export succeeds for every circuit and its text is the two header lines,
\* then the register declaration sized to num_qubits iff num_qubits > 0, then
\* exactly one line per gate, in the order of the gate sequence.
C8_ExportedTextShape ==
    Exported =>
        LET declared == IF circuit.num_qubits > 0 THEN 1 ELSE 0
        IN  /\ status = 200
            /\ Len(qasm_lines) = 2 + declared + Len(circuit.gates)
            /\ qasm_lines[1] = <<"OPENQASM", " ", "2.0", ";">>
            /\ qasm_lines[2] = <<"include", " ", "\"qelib1.inc\"", ";">>
            /\ declared = 1 =>
                  qasm_lines[3]
                    = <<"qreg", " ", "q[" \o ToString(circuit.num_qubits) \o "]", ";">>
            /\ \A k \in 1..Len(circuit.gates) :
                  LET line == qasm_lines[2 + declared + k]
                  IN  /\ line[1] = circuit.gates[k].name
                      /\ line[Len(line)] = ";"
                      /\ Len(RefsOfLine(line))
                            = Len(circuit.gates[k].controls.val)
                              + Len(circuit.gates[k].targets)

\* a circuit with a register and three gates, one of them without targets, was
\* exported
C8_Witness ==
    /\ Exported
    /\ circuit.num_qubits = 3
    /\ Len(circuit.gates) = 3
    /\ circuit.gates[2].targets = <<>>
    /\ Len(qasm_lines) = 6

EmptyCircuit == circuit.num_qubits = 0 /\ circuit.gates = <<>>

\* C9: for the empty circuit the text exporter returns exactly the two header
\* lines and the script exporter the fixed preamble followed by "pass" and
\* "return qml.state()".
C9_EmptyCircuitBoilerplate ==
    EmptyCircuit =>
        /\ Exported =>
              qasm_lines = << <<"OPENQASM", " ", "2.0", ";">>,
                              <<"include", " ", "\"qelib1.inc\"", ";">> >>
        /\ Scripted =>
              script_lines
                = << "import pennylane as qml",
                     "from pennylane import numpy as np",
                     "",
                     "dev = qml.device('default.qubit', wires=0)",
                     "",
                     "@qml.qnode(dev)",
                     "def circuit():",
                     "    pass # No qubits in circuit",
                     "    return qml.state()" >>

\* the empty circuit was exported to text and to a script
C9_Witness ==
    /\ EmptyCircuit
    /\ Exported /\ Len(qasm_lines) = 2
    /\ Scripted /\ script_lines[Len(script_lines)] = "    return qml.state()"

-----------------------------------------------------------------------------
(* Claims about the parse endpoint. *)

\* the dialect version a text declares in its header: the word that follows
\* the keyword OPENQASM (in any case) and white space; "" when the text does
\* not begin with such a declaration
DeclaredVersion(text) ==
    LET t == LStrip(text)
    IN  IF Len(t) >= 3 /\ Lower(t[1]) = "openqasm" /\ t[2] \in WhiteSpace
        THEN LET rest == LStrip(Tail(t))
             IN  IF rest # <<>> /\ rest[1] \notin {";", ",", "(", ")"}
                 THEN rest[1] ELSE ""
        ELSE ""

-----------------------------------------------------------------------------
(* Claims about the text round trip. *)

\* a circuit the text dialect can express: every gate is a gate of qelib1.inc
\* used with that gate's number of parameters and of qubits, on distinct
\* qubits of the register
Representable(c) ==
    /\ c.num_qubits >= 0
    /\ \A k \in 1..Len(c.gates) :
          LET g == c.gates[k]
              qubits == g.controls.val \o g.targets
          IN  /\ g.name \in DOMAIN QELIB1
              /\ g.targets # <<>>
              /\ Len(g.parameters.val) = QELIB1[g.name].nparams
              /\ Len(qubits) = QELIB1[g.name].nqubits
              /\ \A j \in 1..Len(qubits) : 0 <= qubits[j] /\ qubits[j] < c.num_qubits
              /\ \A i, j \in 1..Len(qubits) : i # j => qubits[i] # qubits[j]

\* a gate with absent and empty lists identified and each parameter replaced
\* by its numeric value
GateValue(g) ==
    [name |-> g.name, targets |-> g.targets, controls |-> g.controls.val,
     parameters |-> [k \in 1..Len(g.parameters.val) |->
                        IF g.parameters.val[k].kind = "float"
                        THEN g.parameters.val[k].text
                        ELSE EvalParameter(g.parameters.val[k].text)]]

\* two gate sequences hold the same gates, each as often, in any order
SameGatesUpToOrder(a, b) ==
    /\ Len(a) = Len(b)
    /\ \A v \in {GateValue(a[k]) : k \in 1..Len(a)}
                \cup {GateValue(b[k]) : k \in 1..Len(b)} :
          Cardinality({k \in 1..Len(a) : GateValue(a[k]) = v})
            = Cardinality({k \in 1..Len(b) : GateValue(b[k]) = v})

\* C10: exporting a circuit of text-dialect gates to text and importing that text
\* yields the same num_qubits and the same gates (name, controls, targets,
\* parameters), up to gate order and numeric precision.
C10_TextRoundTrip ==
    (pc = "parse_qasm_to_json" /\ Representable(circuit)) =>
        /\ status = 200
        /\ resp_circuit.num_qubits = circuit.num_qubits
        /\ SameGatesUpToOrder(resp_circuit.gates, circuit.gates)

-----------------------------------------------------------------------------
(* Claims about the object-graph conversions. *)

\* C11: for every name of a toolkit's construction table, the gate built from
\* that name is recognized by the toolkit's importer under the same name.
C11_RecognitionInvertsConstruction ==
    /\ (pc = "qiskit_circuit_to_json"
        /\ circuit.gates[1].name \in DOMAIN QISKIT_GATE_MAP
        /\ Len(qiskit_qc.data) = 1)
       => (Len(imported.gates) = 1
           /\ imported.gates[1].name = circuit.gates[1].name)
    /\ (pc = "cirq_circuit_to_json"
        /\ circuit.gates[1].name \in DOMAIN CIRQT_GATE_MAP_TO_CIRQT
        /\ Len(AllOperations(cirq_circuit)) = 1)
       => (~raised /\ Len(imported.gates) = 1
           /\ imported.gates[1].name = circuit.gates[1].name)

\* the name of the rule written for a rotation class
RotationName(cls) ==
    CASE cls = "Rx" -> "rx" [] cls = "Ry" -> "ry" [] cls = "Rz" -> "rz"

\* C12: the Cirq recognizer matches the most specific rule first: a controlled
\* gate is named by the controlled-gate rule, never by the rule of its
\* sub-gate, and a rotation gate Rx, Ry, Rz is always named rx, ry, rz, never by
\* the rule of the X, Y, Z power gates.
C12_SpecificRuleFirst ==
    pc = "cirq_circuit_to_json" =>
        \A k \in 1..Len(AllOperations(cirq_circuit)) :
            LET gate == AllOperations(cirq_circuit)[k].gate
            IN  /\ gate.num_controls > 0 =>
                      _get_cirq_gate_name(gate) # _get_cirq_gate_name(SubGate(gate))
                /\ (gate.num_controls = 0 /\ gate.cls \in {"Rx", "Ry", "Rz"}) =>
                      /\ _get_cirq_gate_name(gate) = RotationName(gate.cls)
                      /\ ~raised => imported.gates[k].name = RotationName(gate.cls)

\* a gate naming a qubit index outside [0, num_qubits)
OutOfRange(g, num_qubits) ==
    \E i \in Range(g.targets) \cup Range(g.controls.val) :
        i < 0 \/ i >= num_qubits

\* the circuit without its k-th gate
WithoutGate(c, k) ==
    [c EXCEPT !.gates = SubSeq(c.gates, 1, k - 1)
                        \o SubSeq(c.gates, k + 1, Len(c.gates))]

\* C13: when one gate of the sequence names a qubit index outside
\* [0, num_qubits), too large or negative, each object-graph exporter returns
\* without raising the circuit it builds from the sequence without that gate.
C13_OutOfRangeGateDropped ==
    \A k \in 1..Len(circuit.gates) :
        (/\ OutOfRange(circuit.gates[k], circuit.num_qubits)
         /\ \A j \in 1..Len(circuit.gates) :
               j # k => ~OutOfRange(circuit.gates[j], circuit.num_qubits))
        => /\ pc = "circuit_json_to_qiskit" =>
                 (~raised
                  /\ qiskit_qc = circuit_json_to_qiskit(WithoutGate(circuit, k)))
           /\ pc = "circuit_json_to_cirq" =>
                 (~raised
                  /\ cirq_circuit = circuit_json_to_cirq(WithoutGate(circuit, k)))

\* C17: a gate whose name has no entry in a toolkit's construction table is
\* skipped by that toolkit's exporter: the circuit built is the one built
\* from the sequence without that gate, and the export does not raise.
C17_UnknownGateSkipped ==
    \A k \in 1..Len(circuit.gates) :
        /\ (pc = "circuit_json_to_qiskit"
            /\ Lower(circuit.gates[k].name) \notin DOMAIN QISKIT_GATE_MAP)
           => (~raised
               /\ qiskit_qc = circuit_json_to_qiskit(WithoutGate(circuit, k)))
        /\ (pc = "circuit_json_to_cirq"
            /\ Lower(circuit.gates[k].name) \notin DOMAIN CIRQT_GATE_MAP_TO_CIRQT)
           => (~raised
               /\ cirq_circuit = circuit_json_to_cirq(WithoutGate(circuit, k)))

\* a gate supplied with another number of parameters than its name declares
\* in Cirq: one for a rotation, none for every other name of the table
ParameterMismatch(g) ==
    /\ Lower(g.name) \in DOMAIN CIRQT_GATE_MAP_TO_CIRQT
    /\ Len(g.parameters.val)
         # (IF Lower(g.name) \in {"rx", "ry", "rz"} THEN 1 ELSE 0)

\* C18: the Cirq exporter skips a gate whose number of parameters is not the
\* one its name declares: the circuit built is the one built from the
\* sequence without that gate, and the export does not raise.
C18_ParameterMismatchSkipped ==
    pc = "circuit_json_to_cirq" =>
        \A k \in 1..Len(circuit.gates) :
            ParameterMismatch(circuit.gates[k])
            => (~raised
                /\ cirq_circuit = circuit_json_to_cirq(WithoutGate(circuit, k)))

-----------------------------------------------------------------------------
(* Claims about the script exporter. *)

\* the lines of a script that belong to every script of the circuit's width
ScriptBoilerplate ==
    Range(ScriptPreamble(circuit.num_qubits))
    \cup { "    pass # No qubits in circuit",
           "    return qml.state()",
           "    return qml.expval(qml.PauliZ(0)) # Example measurement",
           "\n# To run the circuit:",
           "# print(circuit())" }

\* the lines of the script the gates contributed, in script order
ScriptBody ==
    LET contributed(line) == line \notin ScriptBoilerplate
    IN  SelectSeq(script_lines, contributed)

\* the comment that notes a skipped gate
SkippedComment(g) ==
    IF g.controls.some /\ g.controls.val # <<>>
    THEN "    # Warning: Gate '" \o g.name
         \o "' (with controls) not found or base for qml.ctrl not identified in PENNYLANE_GATE_MAP. Skipping."
    ELSE "    # Warning: Gate '" \o g.name
         \o "' not found in PENNYLANE_GATE_MAP. Skipping."

UnknownToScript(g) == Lower(g.name) \notin DOMAIN PENNYLANE_GATE_MAP

\* C14: in the script, every gate whose lower-cased name is not a key of
\* PENNYLANE_GATE_MAP stands as exactly one comment line naming it, with or
\* without controls, and every gate of the sequence has its one line, in order.
C14_UnknownGateCommented ==
    Scripted =>
        \A k \in 1..Len(circuit.gates) :
            UnknownToScript(circuit.gates[k]) =>
                /\ Len(ScriptBody) = Len(circuit.gates)
                /\ ScriptBody[k] = SkippedComment(circuit.gates[k])

\* the statement of a PennyLane operation: qml.<Op>(<parameters>, wires=<wires>)
OperationCall(g, wires_str) ==
    LET params == IF g.parameters.some
                  THEN [k \in 1..Len(g.parameters.val) |->
                           ParamStr(g.parameters.val[k])]
                  ELSE <<>>
    IN  "qml." \o PENNYLANE_GATE_MAP[Lower(g.name)] \o "("
        \o JoinStr(params \o <<"wires=" \o wires_str>>, ", ") \o ")"

\* C15: a gate with non-empty controls whose name is in PENNYLANE_GATE_MAP stands
\* in the script as the generic control wrapper around the base operation on
\* its targets when the name is not natively controlled, and as the native
\* operation on controls followed by targets, without wrapper, when it is.
C15_ControlsAppliedOnce ==
    Scripted =>
        \A k \in 1..Len(circuit.gates) :
            LET g == circuit.gates[k]
            IN  (g.controls.some /\ g.controls.val # <<>> /\ ~UnknownToScript(g))
                => /\ Len(ScriptBody) = Len(circuit.gates)
                   /\ ScriptBody[k] =
                        IF Lower(g.name) \in {"cx", "cnot", "cz", "toffoli", "ccx",
                                              "ch", "crx", "cry", "crz", "cswap"}
                        THEN "    " \o OperationCall(g, ListRepr(g.controls.val
                                                                 \o g.targets))
                        ELSE "    qml.ctrl("
                             \o OperationCall(g, IF Len(g.targets) = 1
                                                 THEN ToString(g.targets[1])
                                                 ELSE ListRepr(g.targets))
                             \o ", control="
                             \o (IF Len(g.controls.val) = 1
                                 THEN ToString(g.controls.val[1])
                                 ELSE ListRepr(g.controls.val))
                             \o ")"

\* the return statements the exporter writes
StateReturn == "    return qml.state()"
ExpvalReturn == "    return qml.expval(qml.PauliZ(0)) # Example measurement"

\* the comment lines that close a script
ClosingComments == <<"\n# To run the circuit:", "# print(circuit())">>

\* the positions of the return statements of the script
ReturnPositions ==
    {k \in 1..Len(script_lines) : script_lines[k] \in {StateReturn, ExpvalReturn}}

\* C16 as stated: every script ends with the same return statement, with no
\* line after it.
C16_EndsWithFixedReturn ==
    Scripted => script_lines[Len(script_lines)] = ExpvalReturn

\* C16 as amended: every script holds exactly one return statement, after every
\* line a gate contributed: "return qml.state()", the last line, when
\* num_qubits = 0, and otherwise "return qml.expval(qml.PauliZ(0))" followed by
\* the two closing comment lines and nothing else.
C16_OneReturnAfterGates ==
    Scripted =>
        \E r \in 1..Len(script_lines) :
            /\ ReturnPositions = {r}
            /\ \A k \in 1..(r - 1) : script_lines[k] \notin Range(ClosingComments)
            /\ \A k \in (r + 1)..Len(script_lines) :
                  script_lines[k] \in Range(ClosingComments)
            /\ IF circuit.num_qubits = 0
               THEN script_lines[r] = StateReturn /\ r = Len(script_lines)
               ELSE /\ script_lines[r] = ExpvalReturn
                    /\ SubSeq(script_lines, r + 1, Len(script_lines))
                         = ClosingComments
                    /\ r = Len(ScriptPreamble(circuit.num_qubits))
                           + Len(circuit.gates) + 1

\* a script with two gate lines, then the return statement, then the closing
\* comments
C16_Witness ==
    /\ Scripted
    /\ circuit.num_qubits = 3
    /\ Len(circuit.gates) = 2 /\ Len(ScriptBody) = 2
    /\ script_lines[Len(script_lines) - 2] = ExpvalReturn
    /\ script_lines[Len(script_lines)] = ClosingComments[2]

-----------------------------------------------------------------------------
(* Claims about the importers. *)

\* an importer has answered
Imported == pc \in {"qiskit_circuit_to_json", "cirq_circuit_to_json"}

\* C19: every importer returns, for every source circuit, also one without
\* operations, a gate_counts that is present and counts each name's occurrences
\* in the returned gates, and a depth that is present and is the depth of the
\* returned gates.
C19_ImporterStatistics ==
    Imported =>
        /\ ~raised
        /\ imported.gate_counts.some
        /\ DOMAIN imported.gate_counts.val
              = {imported.gates[k].name : k \in 1..Len(imported.gates)}
        /\ \A n \in DOMAIN imported.gate_counts.val :
              imported.gate_counts.val[n] = Occurrences(imported.gates, n)
        /\ imported.depth.some
        /\ imported.depth.val = SequenceDepth(imported.gates)

\* the number of controls an instruction declares: its operation's
\* num_ctrl_qubits, or the number its name implies when it has none
DeclaredControls(ins) ==
    IF ins.num_ctrl_qubits.some THEN ins.num_ctrl_qubits.val
    ELSE CASE ins.name \in {"cx", "cz"} -> 1
           [] ins.name = "ccx" -> 2
           [] OTHER -> 0

\* C20: the Qiskit importer gives an operation named cx, cz, ccx, mcx, mcz,
\* mcrx, mcry or mcrz that declares k > 0 controls and has more than k operands
\* its first k operands as controls and the rest as targets, and gives every
\* other operation no controls and all operands as targets; so controls
\* followed by targets is the operand list, and the two share no index.
C20_ControlPrefix ==
    pc = "qiskit_circuit_to_json" =>
        /\ Len(imported.gates) = Len(qiskit_qc.data)
        /\ \A i \in 1..Len(qiskit_qc.data) :
              LET ins == qiskit_qc.data[i]
                  g == imported.gates[i]
                  k == DeclaredControls(ins)
              IN  /\ IF /\ ins.name \in {"cx", "cz", "ccx", "mcx", "mcz",
                                         "mcrx", "mcry", "mcrz"}
                        /\ k > 0 /\ Len(ins.qubits) > k
                     THEN /\ g.controls = Some(SubSeq(ins.qubits, 1, k))
                          /\ g.targets = SubSeq(ins.qubits, k + 1, Len(ins.qubits))
                     ELSE /\ ~g.controls.some
                          /\ g.targets = ins.qubits
                  /\ g.controls.val \o g.targets = ins.qubits
                  /\ Range(g.controls.val) \cap Range(g.targets) = {}

\* cx q[0],q[1] was imported with controls [0] and targets [1], next to an
\* operation outside the list that kept all its operands as targets
C20_Witness ==
    /\ pc = "qiskit_circuit_to_json"
    /\ \E i \in 1..Len(qiskit_qc.data) :
          /\ qiskit_qc.data[i].name = "cx" /\ qiskit_qc.data[i].qubits = <<0, 1>>
          /\ imported.gates[i].controls = Some(<<0>>)
          /\ imported.gates[i].targets = <<1>>
    /\ \E i \in 1..Len(qiskit_qc.data) :
          /\ qiskit_qc.data[i].name = "ch"
          /\ ~imported.gates[i].controls.some
          /\ imported.gates[i].targets = <<0, 1>>

\* four equal gates that cancel pairwise: one name among h, x, y, z up to
\* case, one and the same target, no controls, no parameters
FourIdentical(gates) ==
    /\ Len(gates) = 4
    /\ \A k \in 2..4 : gates[k] = gates[1]
    /\ ContractPair(gates[1], gates[2], FALSE)

\* C21 as stated: on four identical self-inverse gates on one qubit the pass
\* removes the first pair only and returns the last two gates, not the empty
\* sequence.
C21_OnlyFirstPairRemoved ==
    (pc = "remove_self_inverse_pairs" /\ FourIdentical(circuit.gates)) =>
        /\ pass_out.gates = SubSeq(circuit.gates, 3, 4)
        /\ pass_out.gates # <<>>

\* C21 amended: on four identical self-inverse gates on one qubit the pass
\* removes the first pair, resumes at the third gate, removes the second pair
\* too and returns the empty sequence.
C21_BothPairsRemoved ==
    (pc = "remove_self_inverse_pairs" /\ FourIdentical(circuit.gates)) =>
        pass_out.gates = <<>>

\* the pass has run on four equal h gates carrying statistics
C21_Witness ==
    /\ pc = "remove_self_inverse_pairs"
    /\ FourIdentical(circuit.gates)
    /\ circuit.gates[1].name = "h"
    /\ circuit.depth.some
    /\ Len(pass_out.gates) = 0

\* sub is seq with some of its elements taken out, the others in their order
RECURSIVE IsSubsequence(_, _)
IsSubsequence(sub, seq) ==
    IF sub = <<>> THEN TRUE
    ELSE IF seq = <<>> THEN FALSE
    ELSE IF sub[1] = seq[1] THEN IsSubsequence(Tail(sub), Tail(seq))
    ELSE IsSubsequence(sub, Tail(seq))

IndicesOf(g) ==
    { g.targets[k] : k \in 1..Len(g.targets) }
    \cup (IF g.controls.some
          THEN { g.controls.val[k] : k \in 1..Len(g.controls.val) } ELSE {})

\* the circuit model's invariants on one gate of a circuit of n qubits
KeepsInvariants(g, n) ==
    /\ \A q \in IndicesOf(g) : 0 <= q /\ q < n
    /\ g.controls.some =>
           \A a \in 1..Len(g.controls.val) : \A b \in 1..Len(g.targets) :
               g.controls.val[a] # g.targets[b]

\* C22: the gates the pass returns are an order-preserving subsequence of the
\* input's gates, each kept gate unchanged; num_qubits and metadata are the
\* input's; if every input gate has its indices in [0, num_qubits) and controls
\* disjoint from targets then so has every output gate; the number of removed
\* gates is even.
C22_InvariantsPreserved ==
    pc = "remove_self_inverse_pairs" =>
        /\ IsSubsequence(pass_out.gates, circuit.gates)
        /\ pass_out.num_qubits = circuit.num_qubits
        /\ pass_out.metadata = circuit.metadata
        /\ (\A k \in 1..Len(circuit.gates) :
                KeepsInvariants(circuit.gates[k], circuit.num_qubits))
           => (\A k \in 1..Len(pass_out.gates) :
                KeepsInvariants(pass_out.gates[k], pass_out.num_qubits))
        /\ (Len(circuit.gates) - Len(pass_out.gates)) % 2 = 0

\* a pair was removed between a controlled gate and a parameterised gate, both
\* kept
C22_Witness ==
    /\ pc = "remove_self_inverse_pairs"
    /\ Len(circuit.gates) = 4
    /\ Truthy(circuit.gates[1].controls)
    /\ Truthy(circuit.gates[4].parameters)
    /\ pass_out.gates = <<circuit.gates[1], circuit.gates[4]>>
    /\ pass_out.metadata = circuit.metadata

\* a gate of the Cirq table one of whose parameters is a string that is
\* neither pi, pi/2 or pi/4 nor a numeric literal
UnresolvableParameter(g) ==
    /\ Lower(g.name) \in DOMAIN CIRQT_GATE_MAP_TO_CIRQT
    /\ Truthy(g.parameters)
    /\ \E k \in 1..Len(g.parameters.val) :
          /\ g.parameters.val[k].kind = "str"
          /\ Lower(g.parameters.val[k].text) \notin {"pi", "pi/2", "pi/4"}
          /\ g.parameters.val[k].text \notin FloatLiterals

\* C23: the Cirq exporter drops a gate carrying a string parameter that is
\* neither pi, pi/2, pi/4 nor a numeric literal: the circuit built is the one
\* built from the sequence without that gate, so the gate is never appended
\* with a substituted value and the other gates are still processed.
C23_UnresolvableParameterDropped ==
    pc = "circuit_json_to_cirq" =>
        \A k \in 1..Len(circuit.gates) :
            UnresolvableParameter(circuit.gates[k])
            => (~raised
                /\ cirq_circuit = circuit_json_to_cirq(WithoutGate(circuit, k)))

-----------------------------------------------------------------------------
(* Claims about applying the cancellation pass again and again. *)

\* how many of the first k names of the pass list are the cancellation pass
Applications(k) ==
    Cardinality({ j \in 1..k : passes[j] \in OPTIMIZATION_PASS_REGISTRY })

\* one more application leaves the gate sequence as it is
GatesFixed(circuit_json) ==
    remove_self_inverse_pairs(circuit_json).gates = circuit_json.gates

\* the loop has started and the circuit it holds is such a fixed point
FixedPointReached ==
    pc # "request" /\ GatesFixed(optimized)

\* the step is an application of the pass to the circuit the loop holds
ApplicationStep ==
    /\ ApplyNextPass
    /\ passes[passes_applied + 1] \in OPTIMIZATION_PASS_REGISTRY

\* C24: applying the pass again and again to its own output reaches a circuit
\* whose gate sequence one more application leaves unchanged: at the latest
\* after floor(n/2) applications for an input of n gates, so always when the
\* pass list names the pass that often; once reached it stays; from the first
\* application on the whole circuit, statistics included, is left unchanged at
\* the fixed point.  Every application that is due is completed, and every
\* application that changes the gate sequence shortens it by a positive even
\* number of gates.
C24_ReachesFixedPoint ==
    /\ [](pc # "request"
             => /\ Applications(passes_applied) >= Len(circuit.gates) \div 2
                    => GatesFixed(optimized)
                /\ (Applications(passes_applied) >= 1 /\ GatesFixed(optimized))
                    => remove_self_inverse_pairs(optimized) = optimized)
    /\ (pc = "request" /\ Applications(Len(passes)) >= Len(circuit.gates) \div 2)
           ~> FixedPointReached
    /\ [][FixedPointReached => FixedPointReached']_vars
    /\ (pc = "request") ~> (pc # "request" /\ passes_applied = Len(passes))
    /\ [][ApplicationStep =>
              /\ optimized' = remove_self_inverse_pairs(optimized)
              /\ optimized'.gates # optimized.gates
                   => /\ Len(optimized'.gates) < Len(optimized.gates)
                      /\ (Len(optimized.gates) - Len(optimized'.gates)) % 2 = 0]_vars

\* one application to x h h x has left x x, which one more application changes
C24_Witness ==
    /\ pc = "for pass_name"
    /\ Len(circuit.gates) = 4
    /\ circuit.gates[1].name = "x" /\ circuit.gates[2].name = "h"
    /\ circuit.gates[3].name = "h" /\ circuit.gates[4].name = "x"
    /\ Applications(passes_applied) = 1
    /\ optimized.gates = <<circuit.gates[1], circuit.gates[4]>>
    /\ ~GatesFixed(optimized)
    /\ remove_self_inverse_pairs(optimized).gates = <<>>

=============================================================================
